---- MODULE Spec2Model ----
(***************************************************************************)
(* MetaVault (src/metavault.py): a mapping-of-mappings store kept in       *)
(* SQLite tables.  The model covers the Store (MetaVaultDatabase), the     *)
(* Dataset (DatasetWrapper), the Collection (MetadataCollection), the      *)
(* value codec (json.dumps / json.loads) and the transaction behaviour of  *)
(* the sqlite3 connection the Store owns.                                  *)
(*                                                                         *)
(* Text is a tuple of one-character strings.  A Python value is a record   *)
(* [k, v]: k is the type ("none", "bool", "int", "str", "list", "dict"),   *)
(* v the payload.  A dict is the tuple of its <<key, value>> pairs in      *)
(* insertion order, as Python keeps them.                                  *)
(***************************************************************************)
EXTENDS Integers, Sequences, FiniteSets, TLC

(***************************************************************************)
(* Bounds of the model.                                                    *)
(***************************************************************************)
\* Calls made on one Store in a run of the main specification.
MaxOps == 4
\* Calls made in a run of the codec specification.
MaxCodecOps == 3
\* Calls made in a run of the search specification.
MaxSearchOps == 4
\* Calls made in a run of the collection specification.
MaxCollOps == 4
\* Calls made in a run of the two-dataset specification.
MaxSetOps == 5
\* Calls made in a run of the in-memory specification.
MaxMemOps == 4
\* Calls made in a run of the import specification.
MaxImportOps == 4
\* Calls made in a run of the column specification.
MaxColumnOps == 4
\* Calls made in a run of the read specification.
MaxReadOps == 4

(***************************************************************************)
(* Python values.                                                          *)
(***************************************************************************)
PyNone == [k |-> "none", v |-> <<>>]
PyBool(b) == [k |-> "bool", v |-> b]
PyInt(n) == [k |-> "int", v |-> n]
PyStr(s) == [k |-> "str", v |-> s]
PyList(xs) == [k |-> "list", v |-> xs]
PyDict(ps) == [k |-> "dict", v |-> ps]
\* The floats json.loads reads from the constants Infinity, -Infinity and
\* NaN: x is "inf", "-inf" or "nan".  The model has no other float.
PyFloat(x) == [k |-> "float", v |-> x]

\* The characters of the model in the order of their code points: SQLite's
\* BINARY collation and Python's str comparison order text by code point.
AsciiOrder ==
    <<"\n", " ", "\"", ",", "-", "0", "1", "2", "3", "4", "5", "6", "7", "8", "9",
      ":", "I", "N", "[", "]", "_", "a", "b", "c", "d", "e", "f", "g", "h", "i", "j", "k",
      "l", "m", "n", "o", "p", "q", "r", "s", "t", "u", "v", "w", "x", "y", "z",
      "{", "}">>

CharCode(c) == CHOOSE i \in 1..Len(AsciiOrder) : AsciiOrder[i] = c

DigitChars == <<"0", "1", "2", "3", "4", "5", "6", "7", "8", "9">>

IsDigit(c) == \E i \in 1..10 : DigitChars[i] = c

DigitValue(c) == (CHOOSE i \in 1..10 : DigitChars[i] = c) - 1

\* str(n) for a natural number n.
RECURSIVE NatText(_)
NatText(n) ==
    IF n < 10 THEN <<DigitChars[n + 1]>>
    ELSE NatText(n \div 10) \o <<DigitChars[(n % 10) + 1]>>

\* str(n) for an integer n.
IntText(n) == IF n < 0 THEN <<"-">> \o NatText(0 - n) ELSE NatText(n)

\* a < b for two texts, by code point, a proper prefix being smaller.
RECURSIVE TextLess(_, _)
TextLess(a, b) ==
    IF b = <<>> THEN FALSE
    ELSE IF a = <<>> THEN TRUE
    ELSE IF a[1] = b[1] THEN TextLess(Tail(a), Tail(b))
    ELSE CharCode(a[1]) < CharCode(b[1])

TextLeq(a, b) == a = b \/ TextLess(a, b)

(***************************************************************************)
(* dict helpers (insertion-ordered).                                       *)
(***************************************************************************)
DictKeys(d) == [i \in 1..Len(d.v) |-> d.v[i][1]]

DictValues(d) == [i \in 1..Len(d.v) |-> d.v[i][2]]

DictHas(d, key) == \E i \in 1..Len(d.v) : d.v[i][1] = key

\* d[key] for a key that is present.
DictGet(d, key) == d.v[CHOOSE i \in 1..Len(d.v) : d.v[i][1] = key][2]

\* d[key] = val: an existing key keeps its position, a new one goes last.
DictSet(d, key, val) ==
    IF DictHas(d, key)
    THEN PyDict([i \in 1..Len(d.v) |->
                    IF d.v[i][1] = key THEN <<key, val>> ELSE d.v[i]])
    ELSE PyDict(Append(d.v, <<key, val>>))

\* d.pop(key, None)
DictPop(d, key) == PyDict(SelectSeq(d.v, LAMBDA p : p[1] # key))

KeySet(d) == {d.v[i][1] : i \in 1..Len(d.v)}

\* Python's ==, restricted to the types of the model: lists compare by
\* position, dicts by key whatever the order, True == 1 and False == 0,
\* nan equal to nothing.
RECURSIVE PyEq(_, _)
PyEq(x, y) ==
    CASE x.k = "list" /\ y.k = "list" ->
            /\ Len(x.v) = Len(y.v)
            /\ \A i \in 1..Len(x.v) : PyEq(x.v[i], y.v[i])
      [] x.k = "dict" /\ y.k = "dict" ->
            /\ KeySet(x) = KeySet(y)
            /\ \A key \in KeySet(x) : PyEq(DictGet(x, key), DictGet(y, key))
      [] x.k = "bool" /\ y.k = "int" -> y.v = (IF x.v THEN 1 ELSE 0)
      [] x.k = "int" /\ y.k = "bool" -> x.v = (IF y.v THEN 1 ELSE 0)
      [] x.k = "float" /\ y.k = "float" -> x.v = y.v /\ x.v # "nan"
      [] OTHER -> x.k = y.k /\ x.v = y.v

(***************************************************************************)
(* The value codec: json.dumps and json.loads, on text.                    *)
(***************************************************************************)
Spaces(n) == [i \in 1..n |-> " "]

Quoted(s) == <<"\"">> \o s \o <<"\"">>

\* sep.join(parts)
RECURSIVE Join(_, _)
Join(parts, sep) ==
    IF parts = <<>> THEN <<>>
    ELSE IF Len(parts) = 1 THEN parts[1]
    ELSE parts[1] \o sep \o Join(Tail(parts), sep)

\* The text json writes for a float of the model.
FloatText(x) ==
    CASE x = "inf" -> <<"I", "n", "f", "i", "n", "i", "t", "y">>
      [] x = "-inf" -> <<"-", "I", "n", "f", "i", "n", "i", "t", "y">>
      [] OTHER -> <<"N", "a", "N">>

\* The text json writes for a dict key: a str as it is, the other scalars
\* by their JSON text.
JsonKeyText(key) ==
    CASE key.k = "str" -> key.v
      [] key.k = "int" -> IntText(key.v)
      [] key.k = "float" -> FloatText(key.v)
      [] key.k = "bool" -> IF key.v THEN <<"t", "r", "u", "e">>
                                      ELSE <<"f", "a", "l", "s", "e">>
      [] OTHER -> <<"n", "u", "l", "l">>

\* json.dumps(x, indent=ind) at nesting level lvl; ind < 0 stands for
\* indent=None (items separated by ", ", no line breaks).
RECURSIVE JsonDumps(_, _, _)
JsonDumps(x, ind, lvl) ==
    LET open == IF ind < 0 THEN <<>> ELSE <<"\n">> \o Spaces(ind * (lvl + 1))
        sep == IF ind < 0 THEN <<",", " ">> ELSE <<",">> \o open
        close == IF ind < 0 THEN <<>> ELSE <<"\n">> \o Spaces(ind * lvl)
    IN CASE x.k = "none" -> <<"n", "u", "l", "l">>
         [] x.k = "bool" -> IF x.v THEN <<"t", "r", "u", "e">>
                                    ELSE <<"f", "a", "l", "s", "e">>
         [] x.k = "int" -> IntText(x.v)
         [] x.k = "float" -> FloatText(x.v)
         [] x.k = "str" -> Quoted(x.v)
         [] x.k = "list" ->
              IF x.v = <<>> THEN <<"[", "]">>
              ELSE <<"[">> \o open
                   \o Join([i \in 1..Len(x.v) |-> JsonDumps(x.v[i], ind, lvl + 1)], sep)
                   \o close \o <<"]">>
         [] OTHER ->
              IF x.v = <<>> THEN <<"{", "}">>
              ELSE <<"{">> \o open
                   \o Join([i \in 1..Len(x.v) |->
                              Quoted(JsonKeyText(x.v[i][1])) \o <<":", " ">>
                              \o JsonDumps(x.v[i][2], ind, lvl + 1)], sep)
                   \o close \o <<"}">>

ParseFail == [ok |-> FALSE, val |-> PyNone, nxt |-> 0]

ParseOk(val, nxt) == [ok |-> TRUE, val |-> val, nxt |-> nxt]

\* The first position at or after i that holds no white space.
RECURSIVE SkipWs(_, _)
SkipWs(t, i) ==
    IF i <= Len(t) /\ t[i] \in {" ", "\n"} THEN SkipWs(t, i + 1) ELSE i

\* Whether word stands in t at position i.
Matches(t, i, word) ==
    /\ i + Len(word) - 1 <= Len(t)
    /\ SubSeq(t, i, i + Len(word) - 1) = word

\* The first position after the digits that start at i.
RECURSIVE DigitsEnd(_, _)
DigitsEnd(t, i) ==
    IF i <= Len(t) /\ IsDigit(t[i]) THEN DigitsEnd(t, i + 1) ELSE i

\* int(digits)
RECURSIVE NatValue(_)
NatValue(ds) ==
    IF ds = <<>> THEN 0
    ELSE 10 * NatValue(SubSeq(ds, 1, Len(ds) - 1)) + DigitValue(ds[Len(ds)])

\* A JSON number at i: -?(0|[1-9][0-9]*); the model's text has no fraction
\* or exponent.
ParseNumber(t, i) ==
    LET neg == t[i] = "-"
        s == IF neg THEN i + 1 ELSE i
        e == IF s <= Len(t) /\ t[s] = "0" THEN s + 1 ELSE DigitsEnd(t, s)
    IN IF e = s THEN ParseFail
       ELSE ParseOk(PyInt(IF neg THEN 0 - NatValue(SubSeq(t, s, e - 1))
                                 ELSE NatValue(SubSeq(t, s, e - 1))), e)

\* A JSON string whose opening quote is at i; a line break inside is an
\* error, and the model's text has no escapes.
ParseString(t, i) ==
    LET ends == {j \in (i + 1)..Len(t) : t[j] = "\""}
    IN IF ends = {} THEN ParseFail
       ELSE LET e == CHOOSE j \in ends : \A m \in ends : j <= m
            IN IF \E j \in (i + 1)..(e - 1) : t[j] = "\n" THEN ParseFail
               ELSE ParseOk(PyStr(SubSeq(t, i + 1, e - 1)), e + 1)

RECURSIVE ParseValue(_, _), ParseItems(_, _, _), ParseMembers(_, _, _)
\* The JSON value that starts at or after i.
ParseValue(t, i) ==
    LET j == SkipWs(t, i)
    IN IF j > Len(t) THEN ParseFail
       ELSE CASE t[j] = "\"" -> ParseString(t, j)
              [] t[j] = "-" /\ Matches(t, j, <<"-", "I">>) ->
                   IF Matches(t, j, FloatText("-inf"))
                   THEN ParseOk(PyFloat("-inf"), j + 9) ELSE ParseFail
              [] (t[j] = "-" /\ ~Matches(t, j, <<"-", "I">>)) \/ IsDigit(t[j]) ->
                   ParseNumber(t, j)
              [] t[j] = "I" -> IF Matches(t, j, FloatText("inf"))
                               THEN ParseOk(PyFloat("inf"), j + 8) ELSE ParseFail
              [] t[j] = "N" -> IF Matches(t, j, FloatText("nan"))
                               THEN ParseOk(PyFloat("nan"), j + 3) ELSE ParseFail
              [] t[j] = "n" -> IF Matches(t, j, <<"n", "u", "l", "l">>)
                               THEN ParseOk(PyNone, j + 4) ELSE ParseFail
              [] t[j] = "t" -> IF Matches(t, j, <<"t", "r", "u", "e">>)
                               THEN ParseOk(PyBool(TRUE), j + 4) ELSE ParseFail
              [] t[j] = "f" -> IF Matches(t, j, <<"f", "a", "l", "s", "e">>)
                               THEN ParseOk(PyBool(FALSE), j + 5) ELSE ParseFail
              [] t[j] = "[" ->
                   LET n == SkipWs(t, j + 1)
                   IN IF n <= Len(t) /\ t[n] = "]" THEN ParseOk(PyList(<<>>), n + 1)
                      ELSE ParseItems(t, j + 1, <<>>)
              [] t[j] = "{" ->
                   LET n == SkipWs(t, j + 1)
                   IN IF n <= Len(t) /\ t[n] = "}" THEN ParseOk(PyDict(<<>>), n + 1)
                      ELSE ParseMembers(t, j + 1, PyDict(<<>>))
              [] OTHER -> ParseFail

\* The items of an array from i on, acc being those read so far.
ParseItems(t, i, acc) ==
    LET r == ParseValue(t, i)
        j == SkipWs(t, r.nxt)
    IN IF ~r.ok \/ j > Len(t) THEN ParseFail
       ELSE IF t[j] = "]" THEN ParseOk(PyList(Append(acc, r.val)), j + 1)
       ELSE IF t[j] = "," THEN ParseItems(t, j + 1, Append(acc, r.val))
       ELSE ParseFail

\* The members of an object from i on; a repeated key keeps its last value.
ParseMembers(t, i, acc) ==
    LET j == SkipWs(t, i)
        key == IF j <= Len(t) /\ t[j] = "\"" THEN ParseString(t, j) ELSE ParseFail
        c == SkipWs(t, key.nxt)
        r == ParseValue(t, c + 1)
        e == SkipWs(t, r.nxt)
    IN IF ~key.ok \/ c > Len(t) THEN ParseFail
       ELSE IF t[c] # ":" THEN ParseFail
       ELSE IF ~r.ok \/ e > Len(t) THEN ParseFail
       ELSE IF t[e] = "}" THEN ParseOk(DictSet(acc, key.val, r.val), e + 1)
       ELSE IF t[e] = "," THEN ParseMembers(t, e + 1, DictSet(acc, key.val, r.val))
       ELSE ParseFail

\* json.loads(t): ok is FALSE where it raises JSONDecodeError.
JsonLoads(t) ==
    LET r == ParseValue(t, 1)
    IN IF r.ok /\ SkipWs(t, r.nxt) = Len(t) + 1 THEN r ELSE ParseFail

\* DatasetWrapper._serialize
Serialize(value) ==
    IF value.k \in {"dict", "list"} THEN PyStr(JsonDumps(value, 0 - 1, 0)) ELSE value

\* _deserialize as it would be without the json.loads attempt: the text
\* of the column, whatever was written.
DeserializeKeepingText(value) == value

\* DatasetWrapper._deserialize, on a str read from a column.
Deserialize(value) ==
    LET r == JsonLoads(value.v) IN IF r.ok THEN r.val ELSE value

(***************************************************************************)
(* The backing engine: SQLite tables and the sqlite3 connection.           *)
(*                                                                         *)
(* A table is [exists, cols, rows]: cols are the attribute columns in the  *)
(* order of the schema (the key column _filename comes first and is kept   *)
(* apart), rows are [key, vals] in rowid order, vals[i] being the cell of  *)
(* cols[i].  Every column is declared TEXT, so a cell is NULL (PyNone) or  *)
(* a text (PyStr).  A connection is [db, committed, inTx]: the tables as   *)
(* this connection sees them, the tables as committed, and whether a       *)
(* transaction is open.                                                    *)
(***************************************************************************)
VARIABLES
    manual_commit,  \* MetaVaultDatabase.manual_commit
    hashOrder,      \* the order in which this process iterates a set of names
    db,             \* the tables as the Store's connection sees them
    committed,      \* the tables as committed (what another connection sees)
    inTx,           \* whether the connection has a transaction open
    coll,           \* the MetadataCollection the caller holds
    otherColl,      \* a second MetadataCollection the caller holds
    fs,             \* the files written by export, by extension
    snap,           \* the restore point: the tables when begin_transaction
                    \* last succeeded, while only RestorePointCalls followed
    prev,           \* the tables before the last call
    prevColl,       \* coll before the last call
    last,           \* the last call: [op, t, path, key, arg, res, ret]
    nops            \* calls made so far

vars ==
    <<manual_commit, hashOrder, db, committed, inTx, coll, otherColl, fs, snap, prev, prevColl,
      last, nops>>

KeyColumn == <<"_", "f", "i", "l", "e", "n", "a", "m", "e">>

TempTable == "temp_table"

DatasetNames == {"d", "e"}

TableNames == DatasetNames \cup {TempTable}

NoTable == [exists |-> FALSE, cols |-> <<>>, rows |-> <<>>]

Table(cols, rows) == [exists |-> TRUE, cols |-> cols, rows |-> rows]

Row(key, vals) == [key |-> key, vals |-> vals]

\* The index of x in the sequence s, 0 when it is not there.
IndexOf(s, x) ==
    IF \E i \in 1..Len(s) : s[i] = x
    THEN CHOOSE i \in 1..Len(s) : s[i] = x /\ \A j \in 1..(i - 1) : s[j] # x
    ELSE 0

Range(s) == {s[i] : i \in 1..Len(s)}

\* The elements of the set S in the order this process iterates them.
InHashOrder(S) == SelectSeq(hashOrder, LAMBDA x : x \in S)

\* DatasetWrapper._get_columns: PRAGMA table_info
GetColumns(tbl) == <<KeyColumn>> \o tbl.cols

\* The _filename cell that is NULL: the column is declared TEXT PRIMARY KEY
\* without NOT NULL, so the engine takes NULL for it, in any number of
\* rows, and no comparison with NULL is true.  No text is this value.
NullKey == <<"NULL">>

RowIndex(tbl, key) ==
    IF key # NullKey /\ \E i \in 1..Len(tbl.rows) : tbl.rows[i].key = key
    THEN CHOOSE i \in 1..Len(tbl.rows) : tbl.rows[i].key = key
    ELSE 0

\* What a TEXT column stores for a bound value: None as NULL, a number as
\* its text (Inf and -Inf for the infinities, NULL for nan), a str as it
\* is.
TextAffinity(value) ==
    CASE value.k = "none" -> PyNone
      [] value.k = "int" -> PyStr(IntText(value.v))
      [] value.k = "bool" -> PyStr(IF value.v THEN <<"1">> ELSE <<"0">>)
      [] value.k = "float" ->
            CASE value.v = "inf" -> PyStr(<<"I", "n", "f">>)
              [] value.v = "-inf" -> PyStr(<<"-", "I", "n", "f">>)
              [] OTHER -> PyNone
      [] OTHER -> value

\* The _filename cell of a bound key.
KeyCell(filename) ==
    IF TextAffinity(filename).k = "none" THEN NullKey ELSE TextAffinity(filename).v

\* The value a _filename cell is read as.
KeyValue(key) == IF key = NullKey THEN PyNone ELSE PyStr(key)

\* A statement Python's sqlite3 opens a transaction for (INSERT, UPDATE,
\* DELETE, REPLACE): BEGIN first when none is open.
Dml(c, newdb) == [db |-> newdb, committed |-> c.committed, inTx |-> TRUE]

\* A schema statement (CREATE, ALTER, DROP): sqlite3 opens no transaction
\* for it, so outside a transaction the engine commits it at once.
Ddl(c, newdb) ==
    [db |-> newdb,
     committed |-> IF c.inTx THEN c.committed ELSE newdb,
     inTx |-> c.inTx]

\* A DML statement that fails while it runs: the transaction was opened,
\* the statement changed nothing.
DmlFailed(c) == [c EXCEPT !.inTx = TRUE]

\* MetaVaultDatabase.commit: conn.commit()
ConnCommit(c) == [db |-> c.db, committed |-> c.db, inTx |-> FALSE]

\* MetaVaultDatabase._checked_commit
CheckedCommit(c) == IF ~manual_commit THEN ConnCommit(c) ELSE c

\* What a call hands back: the connection after it, "ok" or the exception
\* raised, and the value returned.
Result(c, res, ret) == [c |-> c, res |-> res, ret |-> ret]

\* The row's attributes as read by SELECT *: every column in schema order,
\* None for NULL, the decoded value otherwise.
RowEntry(tbl, row) ==
    PyDict([i \in 1..Len(tbl.cols) |->
              <<PyStr(tbl.cols[i]),
                IF row.vals[i].k = "none" THEN PyNone ELSE Deserialize(row.vals[i])>>])

\* The Collection built from rows: {row["_filename"]: {...}}; a later row
\* with the same key would take the place of the earlier one.
RECURSIVE RowsCollection(_, _)
RowsCollection(tbl, rows) ==
    IF rows = <<>> THEN PyDict(<<>>)
    ELSE DictSet(RowsCollection(tbl, SubSeq(rows, 1, Len(rows) - 1)),
                 KeyValue(rows[Len(rows)].key), RowEntry(tbl, rows[Len(rows)]))

\* DatasetWrapper.all
All(c, t) == Result(c, "ok", RowsCollection(c.db[t], c.db[t].rows))

\* DatasetWrapper.keys
Keys(c, t) ==
    Result(c, "ok",
           PyList([i \in 1..Len(c.db[t].rows) |-> KeyValue(c.db[t].rows[i].key)]))

\* DatasetWrapper.__getitem__
GetItem(c, t, filename) ==
    LET tbl == c.db[t]
        i == RowIndex(tbl, KeyCell(filename))
    IN IF i = 0 THEN Result(c, "KeyError", PyNone)
       ELSE Result(c, "ok", RowEntry(tbl, tbl.rows[i]))

\* DatasetWrapper.__contains__
Contains(c, t, filename) ==
    Result(c, "ok", PyBool(RowIndex(c.db[t], KeyCell(filename)) > 0))

\* DatasetWrapper.__len__
DatasetLen(c, t) == Result(c, "ok", PyInt(Len(c.db[t].rows)))

\* DatasetWrapper.__bool__
DatasetBool(c, t) == Result(c, "ok", PyBool(DatasetLen(c, t).ret.v > 0))

\* ALTER TABLE t ADD COLUMN col TEXT: the rows there are get NULL.
AddColumnSql(tbl, col) ==
    Table(Append(tbl.cols, col),
          [i \in 1..Len(tbl.rows) |->
              Row(tbl.rows[i].key, Append(tbl.rows[i].vals, PyNone))])

\* DatasetWrapper._add_column
AddColumn(c, t, col) ==
    CheckedCommit(Ddl(c, [c.db EXCEPT ![t] = AddColumnSql(c.db[t], col)]))

\* _add_column for each name of cols in turn.
RECURSIVE AddColumns(_, _, _)
AddColumns(c, t, cols) ==
    IF cols = <<>> THEN c
    ELSE AddColumns(AddColumn(c, t, cols[1]), t, Tail(cols))

\* The cells of a new row: the named columns take their values, the others
\* NULL; names[j] is written with cells[j].
NewRowVals(tbl, names, cells) ==
    [i \in 1..Len(tbl.cols) |->
        IF IndexOf(names, tbl.cols[i]) > 0
        THEN TextAffinity(cells[IndexOf(names, tbl.cols[i])])
        ELSE PyNone]

\* UpsertSql as it would be with INSERT OR REPLACE in the place of ON
\* CONFLICT DO UPDATE: the row of the key is written anew.
UpsertSqlReplacingRow(tbl, key, names, cells) ==
    Table(tbl.cols,
          Append(SelectSeq(tbl.rows, LAMBDA r : r.key # key),
                 Row(key, NewRowVals(tbl, names, cells))))

\* INSERT INTO t (_filename, names) VALUES (key, cells)
\*   ON CONFLICT(_filename) DO UPDATE SET name = excluded.name, ...
UpsertSql(tbl, key, names, cells) ==
    LET i == RowIndex(tbl, key)
    IN IF i = 0
       THEN Table(tbl.cols, Append(tbl.rows, Row(key, NewRowVals(tbl, names, cells))))
       ELSE Table(tbl.cols,
                  [r \in 1..Len(tbl.rows) |->
                     IF r # i THEN tbl.rows[r]
                     ELSE Row(key,
                              [j \in 1..Len(tbl.cols) |->
                                 IF IndexOf(names, tbl.cols[j]) > 0
                                 THEN TextAffinity(cells[IndexOf(names, tbl.cols[j])])
                                 ELSE tbl.rows[r].vals[j]])])

\* DatasetWrapper.__setitem__
SetItem(c, t, filename, metadata_dict) ==
    LET current_columns == GetColumns(c.db[t])
        new_columns == KeySet(metadata_dict) \ {PyStr(x) : x \in Range(current_columns)}
        added == AddColumns(c, t, [i \in 1..Len(InHashOrder(new_columns)) |->
                                     InHashOrder(new_columns)[i].v])
        names == [i \in 1..Len(metadata_dict.v) |-> metadata_dict.v[i][1].v]
        values == [i \in 1..Len(metadata_dict.v) |-> Serialize(metadata_dict.v[i][2])]
    IN IF metadata_dict.v = <<>>
       THEN \* "INSERT INTO t (_filename, ) ...": the statement does not parse
            Result(added, "OperationalError", PyNone)
       ELSE Result(CheckedCommit(
                     Dml(added, [added.db EXCEPT
                                   ![t] = UpsertSql(added.db[t], KeyCell(filename),
                                                   names, values)])),
                   "ok", PyNone)

\* DeleteSql as it would be without the WHERE clause: every row goes.
DeleteSqlWithoutWhere(tbl, key) == Table(tbl.cols, <<>>)

\* DELETE FROM t WHERE _filename = key
DeleteSql(tbl, key) ==
    IF key = NullKey THEN tbl
    ELSE Table(tbl.cols, SelectSeq(tbl.rows, LAMBDA r : r.key # key))

\* DatasetWrapper.__delitem__
DelItem(c, t, filename) ==
    Result(CheckedCommit(
             Dml(c, [c.db EXCEPT ![t] = DeleteSql(c.db[t], KeyCell(filename))])),
           "ok", PyNone)

\* clear as a drop of the table and a new table with the key column only.
ClearRecreatingTable(c, t) ==
    Result(CheckedCommit(Dml(c, [c.db EXCEPT ![t] = Table(<<>>, <<>>)])),
           "ok", PyNone)

\* DatasetWrapper.clear
Clear(c, t) ==
    Result(CheckedCommit(Dml(c, [c.db EXCEPT ![t] = Table(c.db[t].cols, <<>>)])),
           "ok", PyNone)

\* DatasetWrapper.add_attribute
AddAttribute(c, t, attribute_name) ==
    IF attribute_name \in Range(GetColumns(c.db[t]))
    THEN Result(c, "ok", PyNone)
    ELSE Result(AddColumn(c, t, attribute_name), "ok", PyNone)

\* DatasetWrapper.remove_attribute: the table is rebuilt through temp_table.
RemoveAttribute(c, t, attribute_name) ==
    LET tbl == c.db[t]
        remaining_columns == SelectSeq(tbl.cols, LAMBDA col : col # attribute_name)
        \* CREATE TABLE IF NOT EXISTS temp_table (_filename ..., remaining)
        c1 == IF c.db[TempTable].exists THEN c
              ELSE Ddl(c, [c.db EXCEPT ![TempTable] = Table(remaining_columns, <<>>)])
        tmp == c1.db[TempTable]
        \* INSERT INTO temp_table SELECT _filename, remaining FROM t
        copied == [i \in 1..Len(tbl.rows) |->
                     Row(tbl.rows[i].key,
                         [j \in 1..Len(remaining_columns) |->
                            tbl.rows[i].vals[IndexOf(tbl.cols, remaining_columns[j])]])]
        clash == \E i \in 1..Len(tmp.rows) : RowIndex(tbl, tmp.rows[i].key) > 0
        c2 == Dml(c1, [c1.db EXCEPT ![TempTable] = Table(tmp.cols, tmp.rows \o copied)])
        \* DROP TABLE t
        c3 == Ddl(c2, [c2.db EXCEPT ![t] = NoTable])
        \* ALTER TABLE temp_table RENAME TO t
        c4 == Ddl(c3, [c3.db EXCEPT ![t] = c3.db[TempTable], ![TempTable] = NoTable])
    IN IF attribute_name \notin Range(GetColumns(tbl))
       THEN Result(c, "KeyError", PyNone)
       ELSE IF remaining_columns = <<>>
       THEN \* "(_filename TEXT PRIMARY KEY, )": the statement does not parse
            Result(c, "OperationalError", PyNone)
       ELSE IF Len(tmp.cols) # Len(remaining_columns)
       THEN \* temp_table was there with another number of columns
            Result(c1, "OperationalError", PyNone)
       ELSE IF clash THEN Result(DmlFailed(c1), "IntegrityError", PyNone)
       ELSE Result(CheckedCommit(c4), "ok", PyNone)

\* The cell of a column of a row, the key column included.
CellOf(tbl, row, col) ==
    IF col = KeyColumn THEN KeyValue(row.key) ELSE row.vals[IndexOf(tbl.cols, col)]

\* value.replace(old_value, new_value), old_value not empty
RECURSIVE StrReplace(_, _, _)
StrReplace(text, old, new) ==
    IF Len(text) < Len(old) THEN text
    ELSE IF SubSeq(text, 1, Len(old)) = old
    THEN new \o StrReplace(SubSeq(text, Len(old) + 1, Len(text)), old, new)
    ELSE <<text[1]>> \o StrReplace(Tail(text), old, new)

\* The UPDATE loop of replace_in_attribute from the i-th fetched row on:
\* rows holds the values fetched before the loop, addressed by rowid.
RECURSIVE ReplaceRows(_, _, _, _, _, _, _)
ReplaceRows(c, t, col, old, new, rows, i) ==
    IF i > Len(rows) THEN Result(c, "ok", PyNone)
    ELSE LET tbl == c.db[t]
             value == CellOf(tbl, rows[i], col)
             text == StrReplace(value.v, old, new)
             taken == \E j \in 1..Len(tbl.rows) : j # i /\ tbl.rows[j].key = text
             row == IF col = KeyColumn THEN Row(text, tbl.rows[i].vals)
                    ELSE Row(tbl.rows[i].key,
                             [tbl.rows[i].vals EXCEPT ![IndexOf(tbl.cols, col)] = PyStr(text)])
         IN IF value.k # "str" THEN ReplaceRows(c, t, col, old, new, rows, i + 1)
            ELSE IF col = KeyColumn /\ taken
            THEN Result(DmlFailed(c), "IntegrityError", PyNone)
            ELSE ReplaceRows(
                   Dml(c, [c.db EXCEPT ![t] = Table(tbl.cols, [tbl.rows EXCEPT ![i] = row])]),
                   t, col, old, new, rows, i + 1)

\* DatasetWrapper.replace_in_attribute
ReplaceInAttribute(c, t, attribute_name, old_value, new_value) ==
    LET r == ReplaceRows(c, t, attribute_name, old_value, new_value, c.db[t].rows, 1)
    IN IF attribute_name \notin Range(GetColumns(c.db[t]))
       THEN Result(c, "KeyError", PyNone)
       ELSE IF r.res = "ok" THEN Result(CheckedCommit(r.c), "ok", PyNone)
       ELSE r

\* InsertOrReplaceSql as it would be with the upsert of __setitem__: the
\* columns the statement does not name keep their cells.
InsertOrReplaceSqlKeepingRow(tbl, key, names, cells) == UpsertSql(tbl, key, names, cells)

\* INSERT OR REPLACE INTO t (_filename, names) VALUES (key, cells): the row
\* of the key, if any, is deleted and a new row is written.
InsertOrReplaceSql(tbl, key, names, cells) ==
    Table(tbl.cols,
          Append(DeleteSql(tbl, key).rows, Row(key, NewRowVals(tbl, names, cells))))

\* executemany over the entries from the i-th on: a parameter tuple of the
\* wrong length stops the run, the rows written before it stay.
RECURSIVE BatchRows(_, _, _, _)
BatchRows(tbl, names, items, i) ==
    IF i > Len(items) THEN [ok |-> TRUE, tbl |-> tbl]
    ELSE LET metadata == items[i][2]
             values == [j \in 1..Len(metadata.v) |->
                          IF metadata.v[j][2].k = "none" THEN PyNone
                          ELSE Serialize(metadata.v[j][2])]
         IN IF Len(values) # Len(names) THEN [ok |-> FALSE, tbl |-> tbl]
            ELSE BatchRows(InsertOrReplaceSql(tbl, KeyCell(items[i][1]),
                                              names, values),
                           names, items, i + 1)

\* DatasetWrapper.batch_insert
BatchInsert(c, t, dataset_entries) ==
    LET tbl == c.db[t]
        first == dataset_entries.v[1][2]
        metadata_keys == [i \in 1..Len(first.v) |-> first.v[i][1].v]
        r == BatchRows(tbl, metadata_keys, dataset_entries.v, 1)
    IN IF dataset_entries.v = <<>> THEN Result(c, "ok", PyNone)
       ELSE IF \/ metadata_keys = <<>>
               \/ \E i \in 1..Len(metadata_keys) : metadata_keys[i] \notin Range(tbl.cols)
       THEN \* the statement does not parse, or names a column the table lacks
            Result(c, "OperationalError", PyNone)
       ELSE IF ~r.ok
       THEN Result(Dml(c, [c.db EXCEPT ![t] = r.tbl]), "ProgrammingError", PyNone)
       ELSE Result(CheckedCommit(Dml(c, [c.db EXCEPT ![t] = r.tbl])), "ok", PyNone)

(***************************************************************************)
(* search                                                                  *)
(***************************************************************************)
WordExact == PyStr(<<"e", "x", "a", "c", "t">>)

WordLike == PyStr(<<"l", "i", "k", "e">>)

WordRange == PyStr(<<"r", "a", "n", "g", "e">>)

WordExists == PyStr(<<"e", "x", "i", "s", "t", "s">>)

\* bool(value)
Truthy(value) ==
    CASE value.k = "none" -> FALSE
      [] value.k = "bool" -> value.v
      [] value.k = "int" -> value.v # 0
      [] value.k = "float" -> TRUE
      [] OTHER -> value.v # <<>>

\* str(value) for the scalars of the model
StrOf(value) ==
    CASE value.k = "int" -> IntText(value.v)
      [] value.k = "float" ->
            CASE value.v = "inf" -> <<"i", "n", "f">>
              [] value.v = "-inf" -> <<"-", "i", "n", "f">>
              [] OTHER -> <<"n", "a", "n">>
      [] value.k = "none" -> <<"N", "o", "n", "e">>
      [] OTHER -> value.v

Condition(col, op, args) == [col |-> col, op |-> op, args |-> args]

\* The conditions one criterion adds, in the order the code appends them.
CriterionConditions(key, value) ==
    IF value.k = "dict"
    THEN (IF DictHas(value, WordExact)
          THEN <<Condition(key.v, "=", <<DictGet(value, WordExact)>>)>> ELSE <<>>)
         \o (IF DictHas(value, WordLike)
             THEN <<Condition(key.v, "LIKE", <<DictGet(value, WordLike)>>)>> ELSE <<>>)
         \o (IF DictHas(value, WordRange)
             THEN <<Condition(key.v, "BETWEEN", DictGet(value, WordRange).v)>> ELSE <<>>)
         \o (IF DictHas(value, WordExists) /\ Truthy(DictGet(value, WordExists))
             THEN <<Condition(key.v, "IS NOT NULL", <<>>)>> ELSE <<>>)
    ELSE <<Condition(key.v, "=", <<value>>)>>

RECURSIVE Conditions(_)
Conditions(items) ==
    IF items = <<>> THEN <<>>
    ELSE CriterionConditions(items[1][1], items[1][2]) \o Conditions(Tail(items))

\* Whether pat occurs in text.
IsSubstring(pat, text) ==
    \E i \in 1..(Len(text) - Len(pat) + 1) : SubSeq(text, i, i + Len(pat) - 1) = pat

\* One condition of the WHERE clause on one row.  The column has TEXT
\* affinity and the bound value none, so the value is turned into text and
\* the two are compared as text; a comparison with NULL is not true.  The
\* model's LIKE patterns hold no wildcard of their own.
Holds(tbl, row, cond) ==
    LET cell == CellOf(tbl, row, cond.col)
    IN CASE cond.op = "IS NOT NULL" -> cell.k # "none"
         [] cond.op = "=" ->
              /\ cell.k # "none" /\ cond.args[1].k # "none"
              /\ cell = TextAffinity(cond.args[1])
         [] cond.op = "LIKE" ->
              cell.k # "none" /\ IsSubstring(StrOf(cond.args[1]), cell.v)
         [] OTHER ->
              /\ cell.k # "none" /\ cond.args[1].k # "none" /\ cond.args[2].k # "none"
              /\ TextLeq(TextAffinity(cond.args[1]).v, cell.v)
              /\ TextLeq(cell.v, TextAffinity(cond.args[2]).v)

\* DatasetWrapper.search
Search(c, t, criteria) ==
    LET tbl == c.db[t]
        conditions == Conditions(criteria.v)
        rows == SelectSeq(tbl.rows,
                          LAMBDA row : \A i \in 1..Len(conditions) :
                                          Holds(tbl, row, conditions[i]))
    IN IF \/ conditions = <<>>
          \/ \E i \in 1..Len(conditions) :
                conditions[i].col \notin Range(GetColumns(tbl))
       THEN \* "... WHERE " does not parse; or: no such column
            Result(c, "OperationalError", PyNone)
       ELSE IF \E i \in 1..Len(conditions) :
                  conditions[i].op = "BETWEEN" /\ Len(conditions[i].args) # 2
       THEN Result(c, "ProgrammingError", PyNone)
       ELSE Result(c, "ok", RowsCollection(tbl, rows))

(***************************************************************************)
(* The Store                                                               *)
(***************************************************************************)
\* MetaVaultDatabase.create_dataset: CREATE TABLE IF NOT EXISTS
CreateDataset(c, dataset_name, attributes) ==
    Result(CheckedCommit(
             Ddl(c, IF c.db[dataset_name].exists THEN c.db
                    ELSE [c.db EXCEPT ![dataset_name] = Table(attributes, <<>>)])),
           "ok", PyNone)

\* MetaVaultDatabase.remove_dataset: DROP TABLE IF EXISTS
RemoveDataset(c, dataset_name) ==
    Result(CheckedCommit(Ddl(c, [c.db EXCEPT ![dataset_name] = NoTable])), "ok", PyNone)

\* MetaVaultDatabase.__setitem__: self[dataset_name] = dataset, dataset
\* being a dict of entries or a Collection.
StoreSetItem(c, dataset_name, dataset) ==
    LET tbl == c.db[dataset_name]
        c1 == IF tbl.exists THEN RemoveDataset(c, dataset_name).c ELSE c
        first == dataset.v[1][2]
        attributes == [i \in 1..Len(first.v) |-> first.v[i][1].v]
        c2 == CreateDataset(c1, dataset_name, attributes).c
        r == BatchInsert(c2, dataset_name, dataset)
    IN IF tbl.exists /\ tbl.rows # <<>> THEN Result(c, "KeyError", PyNone)
       ELSE IF dataset.v = <<>>
       THEN \* list(dataset.keys())[0]
            Result(c1, "IndexError", PyNone)
       ELSE IF r.res # "ok" THEN r
       ELSE Result(CheckedCommit(r.c), "ok", PyNone)

\* MetaVaultDatabase.begin_transaction.  NoManualCommitException is a
\* function, not a class: calling it returns None, and raising None is a
\* TypeError.  BEGIN fails inside a transaction.
BeginTransaction(c) ==
    IF ~manual_commit THEN Result(c, "TypeError", PyNone)
    ELSE IF c.inTx THEN Result(c, "OperationalError", PyNone)
    ELSE Result([c EXCEPT !.inTx = TRUE], "ok", PyNone)

\* MetaVaultDatabase.rollback_transaction.  ROLLBACK fails outside a
\* transaction.
RollbackTransaction(c) ==
    IF ~manual_commit THEN Result(c, "TypeError", PyNone)
    ELSE IF ~c.inTx THEN Result(c, "OperationalError", PyNone)
    ELSE Result([db |-> c.committed, committed |-> c.committed, inTx |-> FALSE],
                "ok", PyNone)

\* MetaVaultDatabase.commit
Commit(c) == Result(ConnCommit(c), "ok", PyNone)

(***************************************************************************)
(* The Collection (a dict of dicts) and the interchange files.             *)
(***************************************************************************)
\* {key: collection_dict[key] for key in keys}: ok is FALSE where a key is
\* missing (KeyError).
RECURSIVE PickKeys(_, _)
PickKeys(collection_dict, keys) ==
    IF keys = <<>> THEN [ok |-> TRUE, val |-> PyDict(<<>>)]
    ELSE LET head == PickKeys(collection_dict, SubSeq(keys, 1, Len(keys) - 1))
             key == keys[Len(keys)]
         IN IF ~head.ok \/ ~DictHas(collection_dict, key)
            THEN [ok |-> FALSE, val |-> PyNone]
            ELSE [ok |-> TRUE, val |-> DictSet(head.val, key, DictGet(collection_dict, key))]

\* MetadataCollection.get_subset_by_key
CollectionSubsetByKey(c, collection_dict, keys) ==
    LET r == PickKeys(collection_dict, keys.v)
    IN IF r.ok THEN Result(c, "ok", r.val) ELSE Result(c, "KeyError", PyNone)

\* DatasetWrapper.get_subset_by_key
DatasetSubsetByKey(c, t, keys) == CollectionSubsetByKey(c, All(c, t).ret, keys)

Paths == {"out.jsonl", "out.json", "out.csv", "out.txt"}

\* os.path.splitext(file_path)[1][1:]
FileType(file_path) ==
    CASE file_path = "out.jsonl" -> "jsonl"
      [] file_path = "out.json" -> "json"
      [] file_path = "out.csv" -> "csv"
      [] OTHER -> "txt"

NoFile == [exists |-> FALSE, lines |-> <<>>]

File(lines) == [exists |-> TRUE, lines |-> lines]

\* {**a, **b}
RECURSIVE DictUpdate(_, _)
DictUpdate(a, b) ==
    IF b.v = <<>> THEN a
    ELSE DictUpdate(DictSet(a, b.v[1][1], b.v[1][2]), PyDict(Tail(b.v)))

\* MetadataCollection.__bool__: the class body defines it twice, and the
\* second definition, len(self.collection_dict) == 0, is the one in force.
CollectionBool(collection_dict) == PyBool(Len(collection_dict.v) = 0)

\* seq[lo:hi]
Slice(seq, lo, hi) ==
    LET n == Len(seq)
        At(i) == IF i < 0 THEN (IF i + n < 0 THEN 0 ELSE i + n)
                 ELSE (IF i > n THEN n ELSE i)
    IN IF At(lo) >= At(hi) THEN <<>> ELSE SubSeq(seq, At(lo) + 1, At(hi))

\* seq[::-1]
Reversed(seq) == [i \in 1..Len(seq) |-> seq[Len(seq) + 1 - i]]

\* get_subset_by_amount leaving the keys taken from the end in the order
\* they were taken.
CollectionSubsetByAmountBackwards(c, collection_dict, amount, start, reverse) ==
    LET all == DictKeys(collection_dict)
        keys == IF reverse THEN Slice(Reversed(all), start, start + amount)
                ELSE Slice(all, start, start + amount)
    IN Result(c, "ok", PickKeys(collection_dict, keys).val)

\* MetadataCollection.get_subset_by_amount
CollectionSubsetByAmount(c, collection_dict, amount, start, reverse) ==
    LET all == DictKeys(collection_dict)
        keys == IF reverse THEN Reversed(Slice(Reversed(all), start, start + amount))
                ELSE Slice(all, start, start + amount)
    IN Result(c, "ok", PickKeys(collection_dict, keys).val)

\* merge updating the entries of shared keys attribute by attribute.
RECURSIVE MergePerAttribute(_, _)
MergePerAttribute(collection_dict, metadata_collection) ==
    IF metadata_collection.v = <<>>
    THEN [self |-> collection_dict, metadata_collection |-> metadata_collection]
    ELSE LET key == metadata_collection.v[1][1]
             entry == metadata_collection.v[1][2]
             merged == IF DictHas(collection_dict, key)
                       THEN DictUpdate(DictGet(collection_dict, key), entry)
                       ELSE entry
             rest == MergePerAttribute(DictSet(collection_dict, key, merged),
                                       PyDict(Tail(metadata_collection.v)))
         IN [self |-> rest.self, metadata_collection |-> metadata_collection]

\* MetadataCollection.merge: collection_dict.update(other's dict); self and
\* metadata_collection are the two dicts after the call.
Merge(collection_dict, metadata_collection) ==
    [self |-> DictUpdate(collection_dict, metadata_collection),
     metadata_collection |-> metadata_collection]

\* MetadataCollection.remove_items: pop(key, None) for every key; a key
\* the Collection lacks is reported on the console and passed over.
RECURSIVE RemoveItems(_, _)
RemoveItems(collection_dict, keys) ==
    IF keys = <<>> THEN collection_dict
    ELSE RemoveItems(DictPop(collection_dict, keys[1]), Tail(keys))

\* DatasetWrapper.__add__, other being a Dataset of the same Store
DatasetAdd(c, t, other) ==
    LET current_meta == Merge(All(c, t).ret, All(c, other).ret).self
    IN BatchInsert(c, t, current_meta)

\* DatasetWrapper.__sub__, other being a Dataset of the same Store
DatasetSub(c, t, other) ==
    LET current_meta == RemoveItems(All(c, t).ret, Keys(c, other).ret.v)
    IN BatchInsert(Clear(c, t).c, t, current_meta)

\* MetadataCollection._export_jsonl: one record per entry,
\* {file_column_name: key, **metadata}
ExportJsonl(collection_dict, file_column_name) ==
    File([i \in 1..Len(collection_dict.v) |->
            JsonDumps(DictUpdate(PyDict(<< <<file_column_name, collection_dict.v[i][1]>> >>),
                                 collection_dict.v[i][2]),
                      0 - 1, 0)])

\* MetadataCollection._export_json: json.dump(collection_dict, indent=2)
ExportJson(collection_dict) == File(<<JsonDumps(collection_dict, 2, 0)>>)

\* MetadataCollection.export_data; what it returns is [res, file], file
\* being what the path holds afterwards.  _export_csv opens the file and
\* then reads self.dataset, which no Collection has: the lookup falls back
\* to collection_dict.get("dataset"), None unless an entry has that key.
ExportData(collection_dict, old, file_path, file_column_name) ==
    CASE FileType(file_path) = "jsonl" ->
            [res |-> "ok", file |-> ExportJsonl(collection_dict, file_column_name)]
      [] FileType(file_path) = "json" ->
            [res |-> "ok", file |-> ExportJson(collection_dict)]
      [] FileType(file_path) = "csv" ->
            [res |-> "AttributeError", file |-> File(<<>>)]
      [] OTHER -> [res |-> "ValueError", file |-> old]

\* self[key] = value for the items from the i-th on; the first failure ends
\* the loop with its exception.
RECURSIVE SetItems(_, _, _, _)
SetItems(c, t, items, i) ==
    IF i > Len(items) THEN Result(c, "ok", PyNone)
    ELSE LET r == SetItem(c, t, items[i][1], items[i][2])
         IN IF items[i][2].k # "dict" THEN Result(c, "AttributeError", PyNone)
            ELSE IF r.res # "ok" THEN r
            ELSE SetItems(r.c, t, items, i + 1)

\* DatasetWrapper._import_jsonl: for each line from the i-th on,
\* self[line[file_column_name]] = line; the reader parses a line when the
\* loop comes to it, so the lines before a faulty one are written.
RECURSIVE ImportJsonl(_, _, _, _, _)
ImportJsonl(c, t, file, file_column_name, i) ==
    IF i > Len(file.lines) THEN Result(c, "ok", PyNone)
    ELSE LET line == JsonLoads(file.lines[i])
             r == SetItem(c, t, DictGet(line.val, file_column_name), line.val)
         IN IF ~line.ok THEN Result(c, "InvalidLineError", PyNone)
            ELSE IF line.val.k # "dict" THEN Result(c, "TypeError", PyNone)
            ELSE IF ~DictHas(line.val, file_column_name) THEN Result(c, "KeyError", PyNone)
            ELSE IF r.res # "ok" THEN r
            ELSE ImportJsonl(r.c, t, file, file_column_name, i + 1)

\* DatasetWrapper._import_json: for key, value in data.items(): self[key] = value
ImportJson(c, t, file) ==
    LET r == IF file.lines = <<>> THEN ParseFail ELSE JsonLoads(file.lines[1])
    IN IF ~r.ok THEN Result(c, "JSONDecodeError", PyNone)
       ELSE IF r.val.k # "dict" THEN Result(c, "AttributeError", PyNone)
       ELSE SetItems(c, t, r.val.v, 1)

\* line.split(","): the model's csv fields hold no comma and no quote
RECURSIVE SplitComma(_)
SplitComma(line) ==
    IF IndexOf(line, ",") = 0 THEN <<line>>
    ELSE <<SubSeq(line, 1, IndexOf(line, ",") - 1)>>
         \o SplitComma(SubSeq(line, IndexOf(line, ",") + 1, Len(line)))

\* DatasetWrapper._import_csv: csv.DictReader, every field a str
ImportCsv(c, t, file, file_column_name) ==
    LET header == IF file.lines = <<>> THEN <<>> ELSE SplitComma(file.lines[1])
        rec(i) == LET fields == SplitComma(file.lines[i])
                  IN PyDict([j \in 1..Len(header) |->
                               <<PyStr(header[j]),
                                 IF j <= Len(fields) THEN PyStr(fields[j]) ELSE PyNone>>])
        n == Len(file.lines)
    IN IF n > 1 /\ file_column_name.v \notin Range(header)
       THEN Result(c, "KeyError", PyNone)
       ELSE SetItems(c, t, [i \in 1..(IF n = 0 THEN 0 ELSE n - 1) |->
                              <<DictGet(rec(i + 1), file_column_name), rec(i + 1)>>], 1)

\* import_data clearing the dataset whether or not append is given.
ImportDataAlwaysClearing(c, t, file, file_path, file_column_name, append) ==
    LET c0 == Clear(c, t).c
        r == CASE FileType(file_path) = "jsonl" -> ImportJsonl(c0, t, file, file_column_name, 1)
               [] FileType(file_path) = "json" -> ImportJson(c0, t, file)
               [] OTHER -> ImportCsv(c0, t, file, file_column_name)
    IN IF FileType(file_path) \notin {"jsonl", "json", "csv"}
       THEN Result(c0, "ValueError", PyNone)
       ELSE IF ~file.exists THEN Result(c0, "FileNotFoundError", PyNone)
       ELSE IF r.res # "ok" THEN r
       ELSE Result(CheckedCommit(r.c), "ok", PyNone)

\* DatasetWrapper.import_data
ImportData(c, t, file, file_path, file_column_name, append) ==
    LET c0 == IF ~append THEN Clear(c, t).c ELSE c
        r == CASE FileType(file_path) = "jsonl" -> ImportJsonl(c0, t, file, file_column_name, 1)
               [] FileType(file_path) = "json" -> ImportJson(c0, t, file)
               [] OTHER -> ImportCsv(c0, t, file, file_column_name)
    IN IF FileType(file_path) \notin {"jsonl", "json", "csv"}
       THEN Result(c0, "ValueError", PyNone)
       ELSE IF ~file.exists THEN Result(c0, "FileNotFoundError", PyNone)
       ELSE IF r.res # "ok" THEN r
       ELSE Result(CheckedCommit(r.c), "ok", PyNone)

(***************************************************************************)
(* The state machine: one action per call on the Store, a Dataset or the   *)
(* Collection.  A Dataset is reached through the Store, which hands it out *)
(* only for a table that exists.                                           *)
(***************************************************************************)
A == <<"a">>

B == <<"b">>

Age == <<"a", "g", "e">>

FileColumn == <<"f", "i", "l", "e", "_", "n", "a", "m", "e">>

F1 == PyStr(<<"f", "1">>)

F2 == PyStr(<<"f", "2">>)

\* A dict from its pairs <<text, value>>.
Entry(pairs) == PyDict([i \in 1..Len(pairs) |-> <<PyStr(pairs[i][1]), pairs[i][2]>>])

Orderings(S) ==
    {p \in [1..Cardinality(S) -> S] : \A i, j \in 1..Cardinality(S) : i # j => p[i] # p[j]}

Conn == [db |-> db, committed |-> committed, inTx |-> inTx]

NoSnap == [valid |-> FALSE, closed |-> FALSE, db |-> [t \in TableNames |-> NoTable]]

\* The calls the restore point of begin_transaction is followed through:
\* the writes a rollback is to undo, and the reads.
RestorePointCalls ==
    {"set", "delete", "batch_insert", "clear", "add_attribute", "get", "search"}

\* The call op with result r has been made; path is the file, or the other
\* dataset, it named.
CallOn(op, t, path, key, arg, r) ==
    /\ db' = r.c.db
    /\ committed' = r.c.committed
    /\ inTx' = r.c.inTx
    /\ last' = [op |-> op, t |-> t, path |-> path, key |-> key, arg |-> arg,
                res |-> r.res, ret |-> r.ret]
    /\ snap' = LET open == IF snap.closed THEN NoSnap ELSE snap
               IN IF op = "begin_transaction" /\ r.res = "ok"
                  THEN [valid |-> TRUE, closed |-> FALSE, db |-> db]
                  ELSE IF op = "rollback_transaction" THEN [open EXCEPT !.closed = TRUE]
                  ELSE IF op \in RestorePointCalls THEN open
                  ELSE NoSnap
    /\ prev' = db
    /\ prevColl' = coll
    /\ nops' = nops + 1
    /\ UNCHANGED <<manual_commit, hashOrder>>

Call(op, t, key, arg, r) == CallOn(op, t, "", key, arg, r)

\* A Store just opened on a new database, files being the files on disk.
InitStoreWith(names, files) ==
    /\ manual_commit \in BOOLEAN
    /\ hashOrder \in Orderings({PyStr(n) : n \in names})
    /\ db = [t \in TableNames |-> NoTable]
    /\ committed = [t \in TableNames |-> NoTable]
    /\ inTx = FALSE
    /\ coll = PyDict(<<>>)
    /\ otherColl = PyDict(<<>>)
    /\ fs \in files
    /\ snap = NoSnap
    /\ prev = [t \in TableNames |-> NoTable]
    /\ prevColl = PyDict(<<>>)
    /\ last = [op |-> "init", t |-> "", path |-> "", key |-> PyNone, arg |-> PyNone,
               res |-> "ok", ret |-> PyNone]
    /\ nops = 0

\* A Store just opened on a new database, with no file on disk.
InitStore(names) == InitStoreWith(names, {[p \in Paths |-> NoFile]})

CallCreateDataset(t, attributes) ==
    /\ Call("create_dataset", t, PyNone,
            PyList([i \in 1..Len(attributes) |-> PyStr(attributes[i])]),
            CreateDataset(Conn, t, attributes))
    /\ UNCHANGED <<coll, otherColl, fs>>

CallRemoveDataset(t) ==
    /\ Call("remove_dataset", t, PyNone, PyNone, RemoveDataset(Conn, t))
    /\ UNCHANGED <<coll, otherColl, fs>>

CallBeginTransaction ==
    /\ Call("begin_transaction", "", PyNone, PyNone, BeginTransaction(Conn))
    /\ UNCHANGED <<coll, otherColl, fs>>

CallRollbackTransaction ==
    /\ Call("rollback_transaction", "", PyNone, PyNone, RollbackTransaction(Conn))
    /\ UNCHANGED <<coll, otherColl, fs>>

CallCommit ==
    /\ Call("commit", "", PyNone, PyNone, Commit(Conn))
    /\ UNCHANGED <<coll, otherColl, fs>>

CallSetItem(t, filename, metadata_dict) ==
    /\ db[t].exists
    /\ Call("set", t, filename, metadata_dict, SetItem(Conn, t, filename, metadata_dict))
    /\ UNCHANGED <<coll, otherColl, fs>>

CallGetItem(t, filename) ==
    /\ db[t].exists
    /\ Call("get", t, filename, PyNone, GetItem(Conn, t, filename))
    /\ UNCHANGED <<coll, otherColl, fs>>

CallDelItem(t, filename) ==
    /\ db[t].exists
    /\ Call("delete", t, filename, PyNone, DelItem(Conn, t, filename))
    /\ UNCHANGED <<coll, otherColl, fs>>

CallClear(t) ==
    /\ db[t].exists
    /\ Call("clear", t, PyNone, PyNone, Clear(Conn, t))
    /\ UNCHANGED <<coll, otherColl, fs>>

CallAddAttribute(t, attribute_name) ==
    /\ db[t].exists
    /\ Call("add_attribute", t, PyNone, PyStr(attribute_name),
            AddAttribute(Conn, t, attribute_name))
    /\ UNCHANGED <<coll, otherColl, fs>>

CallRemoveAttribute(t, attribute_name) ==
    /\ db[t].exists
    /\ Call("remove_attribute", t, PyNone, PyStr(attribute_name),
            RemoveAttribute(Conn, t, attribute_name))
    /\ UNCHANGED <<coll, otherColl, fs>>

CallReplaceInAttribute(t, attribute_name, old_value, new_value) ==
    /\ db[t].exists
    /\ Call("replace_in_attribute", t, PyNone, PyStr(attribute_name),
            ReplaceInAttribute(Conn, t, attribute_name, old_value, new_value))
    /\ UNCHANGED <<coll, otherColl, fs>>

CallBatchInsert(t, dataset_entries) ==
    /\ db[t].exists
    /\ Call("batch_insert", t, PyNone, dataset_entries, BatchInsert(Conn, t, dataset_entries))
    /\ UNCHANGED <<coll, otherColl, fs>>

CallSearch(t, criteria) ==
    /\ db[t].exists
    /\ Call("search", t, PyNone, criteria, Search(Conn, t, criteria))
    /\ UNCHANGED <<coll, otherColl, fs>>

\* self[t] = dataset, on the Store
CallStoreSetItem(t, dataset) ==
    /\ Call("store_set", t, PyNone, dataset, StoreSetItem(Conn, t, dataset))
    /\ UNCHANGED <<coll, otherColl, fs>>

\* self[t] + self[other]
CallDatasetAdd(t, other) ==
    /\ db[t].exists /\ db[other].exists
    /\ CallOn("add", t, other, PyNone, PyNone, DatasetAdd(Conn, t, other))
    /\ UNCHANGED <<coll, otherColl, fs>>

\* self[t] - self[other]
CallDatasetSub(t, other) ==
    /\ db[t].exists /\ db[other].exists
    /\ CallOn("sub", t, other, PyNone, PyNone, DatasetSub(Conn, t, other))
    /\ UNCHANGED <<coll, otherColl, fs>>

\* coll = dataset.all()
CallAll(t) ==
    /\ db[t].exists
    /\ Call("all", t, PyNone, PyNone, All(Conn, t))
    /\ coll' = All(Conn, t).ret
    /\ UNCHANGED <<otherColl, fs>>

\* coll = MetadataCollection(collection_dict=...)
CallNewCollection(collection_dict) ==
    /\ Call("collection", "", PyNone, collection_dict, Result(Conn, "ok", PyNone))
    /\ coll' = collection_dict
    /\ UNCHANGED <<otherColl, fs>>

\* otherColl = MetadataCollection(collection_dict=...)
CallOtherCollection(collection_dict) ==
    /\ Call("other", "", PyNone, collection_dict, Result(Conn, "ok", PyNone))
    /\ otherColl' = collection_dict
    /\ UNCHANGED <<coll, fs>>

\* coll.merge(otherColl)
CallMerge ==
    LET r == Merge(coll, otherColl)
    IN /\ Call("merge", "", PyNone, otherColl, Result(Conn, "ok", PyNone))
       /\ coll' = r.self
       /\ otherColl' = r.metadata_collection
       /\ UNCHANGED fs

\* bool(coll)
CallCollectionBool ==
    /\ Call("bool", "", PyNone, PyNone, Result(Conn, "ok", CollectionBool(coll)))
    /\ UNCHANGED <<coll, otherColl, fs>>

\* coll.get_subset_by_amount(amount, start, reverse)
CallCollectionSubsetByAmount(amount, start, reverse) ==
    /\ Call("subset_by_amount", "", PyInt(amount), PyList(<<PyInt(start), PyBool(reverse)>>),
            CollectionSubsetByAmount(Conn, coll, amount, start, reverse))
    /\ UNCHANGED <<coll, otherColl, fs>>

CallCollectionSubsetByKey(keys) ==
    /\ Call("subset_by_key", "", PyNone, keys, CollectionSubsetByKey(Conn, coll, keys))
    /\ UNCHANGED <<coll, otherColl, fs>>

CallDatasetSubsetByKey(t, keys) ==
    /\ db[t].exists
    /\ Call("subset_by_key", t, PyNone, keys, DatasetSubsetByKey(Conn, t, keys))
    /\ UNCHANGED <<coll, otherColl, fs>>

\* coll.export_data(file_path, file_column_name)
CallExportData(file_path, file_column_name) ==
    LET r == ExportData(coll, fs[file_path], file_path, file_column_name)
    IN /\ CallOn("export", "", file_path, file_column_name, PyNone,
               Result(Conn, r.res, PyNone))
       /\ fs' = [fs EXCEPT ![file_path] = r.file]
       /\ UNCHANGED <<coll, otherColl>>

CallImportData(t, file_path, file_column_name, append) ==
    /\ db[t].exists
    /\ CallOn("import", t, file_path, file_column_name, PyBool(append),
              ImportData(Conn, t, fs[file_path], file_path, file_column_name, append))
    /\ UNCHANGED <<coll, otherColl, fs>>

(***************************************************************************)
(* The main specification: one dataset "d" with attributes a and b and     *)
(* keys f1 and f2, on a Store in either commit mode.                       *)
(***************************************************************************)
MainKeys == {F1, F2}

MainAttributes == {A, B}

MainEntries ==
    {Entry(<<>>),
     Entry(<< <<A, PyInt(1)>> >>),
     Entry(<< <<A, PyInt(2)>> >>),
     Entry(<< <<B, PyInt(2)>> >>),
     Entry(<< <<A, PyInt(2)>>, <<B, PyInt(1)>> >>)}

MainBatches ==
    {PyDict(<<>>),
     PyDict(<< <<F1, Entry(<< <<A, PyInt(1)>> >>)>> >>),
     PyDict(<< <<F1, Entry(<< <<B, PyInt(1)>> >>)>> >>),
     PyDict(<< <<F1, Entry(<< <<A, PyInt(2)>> >>)>>, <<F2, Entry(<< <<A, PyInt(1)>> >>)>> >>),
     PyDict(<< <<F1, Entry(<< <<A, PyInt(1)>> >>)>>,
               <<F2, Entry(<< <<A, PyInt(1)>>, <<B, PyInt(2)>> >>)>> >>)}

Init == InitStore(MainAttributes)

Next ==
    \/ nops < MaxOps /\ \E attributes \in {<<>>, <<A>>, <<A, B>>} : CallCreateDataset("d", attributes)
    \/ nops < MaxOps /\ CallRemoveDataset("d")
    \/ nops < MaxOps /\ CallBeginTransaction
    \/ nops < MaxOps /\ CallRollbackTransaction
    \/ nops < MaxOps /\ CallCommit
    \/ nops < MaxOps /\ \E k \in MainKeys, e \in MainEntries : CallSetItem("d", k, e)
    \/ nops < MaxOps /\ \E k \in MainKeys : CallGetItem("d", k)
    \/ nops < MaxOps /\ \E k \in MainKeys : CallDelItem("d", k)
    \/ nops < MaxOps /\ CallClear("d")
    \/ nops < MaxOps /\ \E n \in MainAttributes : CallAddAttribute("d", n)
    \/ nops < MaxOps /\ \E n \in MainAttributes : CallRemoveAttribute("d", n)
    \/ nops < MaxOps /\ \E n \in MainAttributes : CallReplaceInAttribute("d", n, <<"1">>, <<"2">>)
    \/ nops < MaxOps /\ \E b \in MainBatches : CallBatchInsert("d", b)

Spec == Init /\ [][Next]_vars

(***************************************************************************)
(* Properties of the main specification.                                   *)
(***************************************************************************)
RowKeys(tbl) == {tbl.rows[i].key : i \in 1..Len(tbl.rows)}

RowOf(tbl, key) == tbl.rows[RowIndex(tbl, key)]

\* The row of key is in new as it is in old, in every column old has.
SameRow(old, new, key) ==
    /\ RowIndex(new, key) > 0
    /\ \A i \in 1..Len(old.cols) :
          /\ IndexOf(new.cols, old.cols[i]) > 0
          /\ CellOf(new, RowOf(new, key), old.cols[i]) = RowOf(old, key).vals[i]

\* C2: a set that returns leaves every row of another key as it was in
\* every column that existed, leaves on the row of its own key every column
\* the entry does not name as it was, and adds no key but its own.
C2_SetChangesOnlyNamedColumns ==
    (last.op = "set" /\ last.res = "ok") =>
        LET old == prev[last.t]
            new == db[last.t]
            k == TextAffinity(last.key).v
        IN /\ RowKeys(new) = RowKeys(old) \cup {k}
           /\ \A key \in RowKeys(old) \ {k} : SameRow(old, new, key)
           /\ k \in RowKeys(old) =>
                 \A i \in 1..Len(old.cols) :
                    PyStr(old.cols[i]) \notin KeySet(last.arg) =>
                       /\ IndexOf(new.cols, old.cols[i]) > 0
                       /\ CellOf(new, RowOf(new, k), old.cols[i]) = RowOf(old, k).vals[i]

\* A set on an existing key whose row held a value in a column the entry
\* does not name, beside a row of another key.
C2_Witness ==
    /\ last.op = "set" /\ last.res = "ok"
    /\ LET old == prev[last.t]
           k == TextAffinity(last.key).v
       IN /\ k \in RowKeys(old)
          /\ RowKeys(old) # {k}
          /\ \E i \in 1..Len(old.cols) :
                /\ PyStr(old.cols[i]) \notin KeySet(last.arg)
                /\ RowOf(old, k).vals[i] # PyNone
          /\ \E i \in 1..Len(old.cols) :
                /\ PyStr(old.cols[i]) \in KeySet(last.arg)
                /\ RowOf(old, k).vals[i] # CellOf(db[last.t], RowOf(db[last.t], k), old.cols[i])

\* The value get(key) returns for the attribute name, None where get fails
\* or the entry lacks the name.
GetValue(t, key, name) ==
    LET r == GetItem(Conn, t, key)
    IN IF r.res = "ok" /\ DictHas(r.ret, name) THEN DictGet(r.ret, name) ELSE PyNone

\* C3: a batch_insert of a non-empty batch whose first entry names an
\* attribute that is not yet a column succeeds; afterwards every attribute
\* of the first entry is a column and get(k) returns the batch's values for
\* every key k of the batch.
C3_BatchInsertAddsMissingColumns ==
    (/\ last.op = "batch_insert"
     /\ last.arg.v # <<>>
     /\ \E name \in KeySet(last.arg.v[1][2]) : name.v \notin Range(prev[last.t].cols)) =>
        /\ last.res = "ok"
        /\ \A name \in KeySet(last.arg.v[1][2]) : name.v \in Range(db[last.t].cols)
        /\ \A key \in KeySet(last.arg) :
              /\ GetItem(Conn, last.t, key).res = "ok"
              /\ \A name \in KeySet(DictGet(last.arg, key)) :
                    PyEq(GetValue(last.t, key, name), DictGet(DictGet(last.arg, key), name))

\* C5: remove_attribute of an existing attribute column succeeds; afterwards
\* the columns are the previous ones without it, the keys are the same and
\* every remaining column holds what it held on every row.
C5_RemoveAttributeRebuilds ==
    (/\ last.op = "remove_attribute"
     /\ last.arg.v \in Range(prev[last.t].cols)) =>
        LET old == prev[last.t]
            new == db[last.t]
        IN /\ last.res = "ok"
           /\ new.exists
           /\ new.cols = SelectSeq(old.cols, LAMBDA col : col # last.arg.v)
           /\ RowKeys(new) = RowKeys(old)
           /\ \A key \in RowKeys(old) :
                 \A i \in 1..Len(new.cols) :
                    /\ RowIndex(new, key) > 0
                    /\ RowOf(new, key).vals[i] = CellOf(old, RowOf(old, key), new.cols[i])

\* C8: batch_insert leaves every row whose key is not in the batch as it
\* was; when it returns, the row of every key of the batch is NULL in every
\* column the batch's column set (the first entry's names) does not hold.
C8_BatchInsertReplacesRows ==
    last.op = "batch_insert" =>
        LET old == prev[last.t]
            new == db[last.t]
        IN /\ new.cols = old.cols
           /\ \A key \in RowKeys(old) :
                 PyStr(key) \notin KeySet(last.arg) => SameRow(old, new, key)
           /\ (last.res = "ok" /\ last.arg.v # <<>>) =>
                 \A key \in KeySet(last.arg) :
                    /\ RowIndex(new, key.v) > 0
                    /\ \A i \in 1..Len(new.cols) :
                          PyStr(new.cols[i]) \notin KeySet(last.arg.v[1][2]) =>
                             RowOf(new, key.v).vals[i] = PyNone

\* A batch_insert that returned, on a key whose row held a value in a
\* column outside the batch's column set, beside a row the batch lacks.
C8_Witness ==
    /\ last.op = "batch_insert" /\ last.res = "ok"
    /\ LET old == prev[last.t]
       IN /\ \E key \in KeySet(last.arg) :
                /\ key.v \in RowKeys(old)
                /\ \E i \in 1..Len(old.cols) :
                      /\ PyStr(old.cols[i]) \notin KeySet(last.arg.v[1][2])
                      /\ RowOf(old, key.v).vals[i] # PyNone
          /\ \E key \in RowKeys(old) : PyStr(key) \notin KeySet(last.arg)

\* C9: in manual-commit mode begin_transaction succeeds whenever it is
\* called, and a rollback_transaction that follows a begin_transaction and
\* then only set, delete, batch_insert, clear and add_attribute succeeds and
\* leaves every dataset as it was at the begin_transaction.
C9_RollbackRestoresBegin ==
    /\ (manual_commit /\ last.op = "begin_transaction") => last.res = "ok"
    /\ (manual_commit /\ last.op = "rollback_transaction" /\ snap.valid) =>
          last.res = "ok" /\ db = snap.db

\* The calls that write.
MutatingCalls ==
    {"set", "delete", "clear", "batch_insert", "add_attribute", "remove_attribute",
     "replace_in_attribute", "import", "create_dataset", "remove_dataset"}

\* C10: in auto-commit mode what is committed is what the connection sees
\* after every call; in manual-commit mode no writing call changes what is
\* committed.
C10_CommitPolicy ==
    [][/\ ~manual_commit => committed' = db'
       /\ (manual_commit /\ last'.op \in MutatingCalls) => committed' = committed]_vars

(***************************************************************************)
(* The codec specification: set and get of entries whose values are of     *)
(* every kind the codec tells apart.  The texts hold no quote and no       *)
(* backslash, which json.dumps would escape.                               *)
(***************************************************************************)
CodecKeys == {F1, F2}

CodecAttributes == {A, B}

Five == PyStr(<<"5">>)

\* The str "Infinity", which json.loads reads as a float.
InfinityText == PyStr(<<"I", "n", "f", "i", "n", "i", "t", "y">>)

CodecValues ==
    {PyNone, PyBool(TRUE), PyInt(5), PyInt(0 - 12),
     PyStr(<<"a", "b", "c">>), PyStr(<<>>), Five, PyStr(<<"n", "u", "l", "l">>),
     PyStr(<<"[", "1", "]">>), InfinityText,
     PyList(<<>>), PyList(<<PyInt(1), Five, PyNone>>),
     PyDict(<< <<PyStr(<<"x">>), PyList(<<PyBool(FALSE)>>)>> >>),
     PyDict(<< <<PyInt(1), PyInt(2)>> >>),
     PyList(<<PyDict(<< <<PyInt(1), Five>> >>)>>)}

CodecEntries ==
    {Entry(<< <<A, v>> >>) : v \in CodecValues}
       \cup {Entry(<< <<A, Five>>, <<B, PyInt(5)>> >>)}

InitCodec == InitStore(CodecAttributes)

NextCodec ==
    \/ nops < MaxCodecOps /\ \E attributes \in {<<>>, <<A>>} : CallCreateDataset("d", attributes)
    \/ nops < MaxCodecOps /\ \E k \in CodecKeys, e \in CodecEntries : CallSetItem("d", k, e)
    \/ nops < MaxCodecOps /\ \E k \in CodecKeys : CallGetItem("d", k)

SpecCodec == InitCodec /\ [][NextCodec]_vars

(***************************************************************************)
(* Properties of the codec specification.                                  *)
(***************************************************************************)
\* Every key of every dict in value, at any depth, is a str.
RECURSIVE StringKeyed(_)
StringKeyed(value) ==
    CASE value.k = "list" -> \A i \in 1..Len(value.v) : StringKeyed(value.v[i])
      [] value.k = "dict" ->
            \A i \in 1..Len(value.v) :
               value.v[i][1].k = "str" /\ StringKeyed(value.v[i][2])
      [] OTHER -> TRUE

\* The values a column gives back as they were written: None, a bool, an
\* int, a str that is not a JSON text, a list or dict with str keys only.
ReadBackAsWritten(value) ==
    CASE value.k = "str" -> ~JsonLoads(value.v).ok
      [] value.k \in {"list", "dict"} -> StringKeyed(value)
      [] OTHER -> TRUE

SearchKeys == {F1, F2}

SearchAges == {3, 20, 27, 30, 35, 260}

RangeCriteria(lo, hi) ==
    Entry(<< <<Age, PyDict(<< <<WordRange, PyList(<<PyInt(lo), PyInt(hi)>>)>> >>)>> >>)

SearchCriteria ==
    {RangeCriteria(25, 30), RangeCriteria(3, 27),
     Entry(<< <<Age, PyInt(27)>> >>),
     Entry(<< <<Age, PyDict(<< <<WordExists, PyBool(TRUE)>> >>)>> >>),
     Entry(<<>>),
     Entry(<< <<B, PyInt(27)>> >>),
     Entry(<< <<B, PyDict(<< <<WordExists, PyBool(FALSE)>> >>)>> >>),
     Entry(<< <<Age, PyInt(27)>>, <<B, PyDict(<< <<WordExists, PyBool(FALSE)>> >>)>> >>)}

InitSearch == InitStore({Age})

NextSearch ==
    \/ nops < MaxSearchOps /\ CallCreateDataset("d", <<Age>>)
    \/ nops < MaxSearchOps /\ \E k \in SearchKeys, n \in SearchAges :
                                 CallSetItem("d", k, Entry(<< <<Age, PyInt(n)>> >>))
    \/ nops < MaxSearchOps /\ \E criteria \in SearchCriteria : CallSearch("d", criteria)

SpecSearch == InitSearch /\ [][NextSearch]_vars

(***************************************************************************)
(* Properties of the search specification.                                 *)
(***************************************************************************)
\* C7: a search by a range [lo, hi] of numbers with lo <= hi on an
\* attribute returns exactly the rows whose number v for the attribute has
\* lo <= v <= hi in the order of the numbers.
C7_RangeSearchIsNumeric ==
    (/\ last.op = "search"
     /\ DictHas(last.arg, PyStr(Age))
     /\ DictGet(last.arg, PyStr(Age)).k = "dict"
     /\ DictHas(DictGet(last.arg, PyStr(Age)), WordRange)) =>
        LET bounds == DictGet(DictGet(last.arg, PyStr(Age)), WordRange).v
            lo == bounds[1].v
            hi == bounds[2].v
            tbl == db[last.t]
        IN lo <= hi =>
              /\ last.res = "ok"
              /\ KeySet(last.ret) =
                    {PyStr(key) : key \in
                       {key \in RowKeys(tbl) :
                          LET v == GetValue(last.t, PyStr(key), PyStr(Age))
                          IN v.k = "int" /\ lo <= v.v /\ v.v <= hi}}

(***************************************************************************)
(* The collection specification: Collections built by the caller or read   *)
(* from the dataset, their subsets, and the files they are exported to and *)
(* imported from.                                                          *)
(***************************************************************************)
CollKeys == {F1, F2}

CollAttributes == {A, B, FileColumn}

CollCollections ==
    {PyDict(<<>>),
     PyDict(<< <<F1, Entry(<< <<A, PyInt(1)>> >>)>> >>),
     PyDict(<< <<F1, Entry(<< <<A, PyInt(1)>>, <<B, PyList(<<PyInt(2)>>)>> >>)>>,
               <<F2, Entry(<< <<A, PyInt(2)>>, <<B, PyNone>> >>)>> >>),
     PyDict(<< <<F1, Entry(<< <<A, PyInt(1)>> >>)>>, <<F2, Entry(<< <<B, PyInt(2)>> >>)>> >>)}

CollKeyLists == {PyList(<<>>), PyList(<<F1>>), PyList(<<F2, F1>>)}

InitColl == InitStore(CollAttributes)

NextColl ==
    \/ nops < MaxCollOps /\ \E attributes \in {<<>>, <<A, B>>} : CallCreateDataset("d", attributes)
    \/ nops < MaxCollOps /\ \E k \in CollKeys : CallSetItem("d", k, Entry(<< <<A, PyInt(1)>> >>))
    \/ nops < MaxCollOps /\ CallAll("d")
    \/ nops < MaxCollOps /\ \E collection_dict \in CollCollections : CallNewCollection(collection_dict)
    \/ nops < MaxCollOps /\ \E keys \in CollKeyLists : CallCollectionSubsetByKey(keys)
    \/ nops < MaxCollOps /\ \E keys \in CollKeyLists : CallDatasetSubsetByKey("d", keys)
    \/ nops < MaxCollOps /\ \E file_path \in Paths : CallExportData(file_path, PyStr(FileColumn))
    \/ nops < MaxCollOps /\ \E file_path \in Paths, append \in BOOLEAN :
                               CallImportData("d", file_path, PyStr(FileColumn), append)

SpecColl == InitColl /\ [][NextColl]_vars

(***************************************************************************)
(* Properties of the collection specification.                             *)
(***************************************************************************)
\* The two Collections have the same keys and, for each key, entries with
\* the same attribute names and equal values.
SameCollection(x, y) ==
    /\ KeySet(x) = KeySet(y)
    /\ \A key \in KeySet(x) :
          /\ KeySet(DictGet(x, key)) = KeySet(DictGet(y, key))
          /\ \A name \in KeySet(DictGet(x, key)) :
                PyEq(DictGet(DictGet(x, key), name), DictGet(DictGet(y, key), name))

\* C4: an import_data of a .jsonl or .json file that holds the export of
\* the Collection, under the same file column name, into a dataset without
\* rows succeeds, and the dataset's all() is then the Collection: the same
\* keys, and for each key the same attribute names with equal values.
C4_ExportImportGivesCollection ==
    (/\ last.op = "import"
     /\ FileType(last.path) \in {"jsonl", "json"}
     /\ prev[last.t].rows = <<>>
     /\ fs[last.path] = ExportData(coll, NoFile, last.path, last.key).file) =>
        /\ last.res = "ok"
        /\ SameCollection(All(Conn, last.t).ret, coll)

\* C6: subset_by_key does not fail on a key the Collection lacks; it
\* returns the entries of the requested keys that are present, and no
\* others.
C6_SubsetOmitsAbsentKeys ==
    last.op = "subset_by_key" =>
        LET source == IF last.t = "" THEN coll ELSE All(Conn, last.t).ret
        IN /\ last.res = "ok"
           /\ KeySet(last.ret) = KeySet(source) \cap Range(last.arg.v)
           /\ \A key \in KeySet(last.ret) :
                 PyEq(DictGet(last.ret, key), DictGet(source, key))

(***************************************************************************)
(* The two-dataset specification: datasets d and e of one Store, written   *)
(* with set, assigned through the Store and combined with + and -.        *)
(***************************************************************************)
SetsKeys == {F1, F2}

SetsAttributes == {A, B}

SetsEntries ==
    {Entry(<< <<A, PyInt(1)>> >>),
     Entry(<< <<B, PyInt(2)>> >>),
     Entry(<< <<A, InfinityText>> >>),
     Entry(<< <<A, PyInt(3)>>, <<B, PyList(<<PyInt(4)>>)>> >>)}

SetsDatasets ==
    {PyDict(<<>>),
     PyDict(<< <<F1, Entry(<< <<A, PyInt(1)>> >>)>> >>),
     PyDict(<< <<F1, Entry(<< <<A, PyInt(1)>>, <<B, PyInt(2)>> >>)>>,
               <<F2, Entry(<< <<A, PyInt(3)>>, <<B, PyList(<<PyInt(4)>>)>> >>)>> >>),
     PyDict(<< <<F1, Entry(<< <<A, PyInt(1)>> >>)>>,
               <<F2, Entry(<< <<A, PyInt(3)>>, <<B, PyInt(2)>> >>)>> >>)}

InitSets == InitStore(SetsAttributes)

NextSets ==
    \/ nops < MaxSetOps /\ \E t \in DatasetNames : CallCreateDataset(t, <<>>)
    \/ nops < MaxSetOps /\ \E t \in DatasetNames, k \in SetsKeys, e \in SetsEntries :
                              CallSetItem(t, k, e)
    \/ nops < MaxSetOps /\ \E t, other \in DatasetNames : t # other /\ CallDatasetAdd(t, other)
    \/ nops < MaxSetOps /\ \E t, other \in DatasetNames : t # other /\ CallDatasetSub(t, other)
    \/ nops < MaxSetOps /\ \E dataset \in SetsDatasets : CallStoreSetItem("d", dataset)

SpecSets == InitSets /\ [][NextSets]_vars

(***************************************************************************)
(* Properties of the two-dataset specification.                            *)
(***************************************************************************)
\* C11: L + R succeeds; afterwards the keys of L are its previous keys and
\* those of R, L's get gives for every key of R what R's get gives for
\* every attribute of R, every key of L alone keeps its row, and R is as
\* it was.
C11_AddIsUnion ==
    last.op = "add" =>
        LET L == last.t
            R == last.path
        IN /\ last.res = "ok"
           /\ RowKeys(db[L]) = RowKeys(prev[L]) \cup RowKeys(prev[R])
           /\ \A key \in RowKeys(prev[R]) :
                 \A i \in 1..Len(prev[R].cols) :
                    PyEq(GetValue(L, PyStr(key), PyStr(prev[R].cols[i])),
                         GetValue(R, PyStr(key), PyStr(prev[R].cols[i])))
           /\ \A key \in RowKeys(prev[L]) \ RowKeys(prev[R]) : SameRow(prev[L], db[L], key)
           /\ db[R] = prev[R]

\* The entry all() gives for the key in the table.
EntryOf(tbl, key) == RowEntry(tbl, RowOf(tbl, key))

\* C12: L - R succeeds; afterwards the keys of L are its previous keys
\* without those of R, every key left has an entry equal to the one it had,
\* the columns of L are the same, and R is as it was.
C12_SubIsDifference ==
    last.op = "sub" =>
        LET L == last.t
            R == last.path
        IN /\ last.res = "ok"
           /\ RowKeys(db[L]) = RowKeys(prev[L]) \ RowKeys(prev[R])
           /\ \A key \in RowKeys(db[L]) \cap RowKeys(prev[L]) :
                 PyEq(EntryOf(db[L], key), EntryOf(prev[L], key))
           /\ db[L].cols = prev[L].cols
           /\ db[R] = prev[R]

(***************************************************************************)
(* Further properties of the main specification.                           *)
(***************************************************************************)
\* C13: a delete returns; afterwards contains(key) is false, every row of
\* another key is as it was, nothing at all has changed when the key was
\* absent, and a second delete of the key returns and changes nothing.
C13_DeleteIsIdempotent ==
    last.op = "delete" =>
        LET old == prev[last.t]
            new == db[last.t]
            again == DelItem(Conn, last.t, last.key)
        IN /\ last.res = "ok"
           /\ Contains(Conn, last.t, last.key).ret = PyBool(FALSE)
           /\ new.cols = old.cols
           /\ \A key \in RowKeys(old) \ {TextAffinity(last.key).v} : SameRow(old, new, key)
           /\ TextAffinity(last.key).v \notin RowKeys(old) => new = old
           /\ again.res = "ok" /\ again.c.db = db

\* A delete of a key that was present, beside a row of another key.
C13_Witness ==
    /\ last.op = "delete" /\ last.res = "ok"
    /\ TextAffinity(last.key).v \in RowKeys(prev[last.t])
    /\ RowKeys(db[last.t]) # {}

\* C14: on a Store that is not in manual-commit mode begin_transaction and
\* rollback_transaction fail with NoManualCommitException and leave every
\* table as it was.
C14_TransactionCallsNeedManualCommit ==
    (~manual_commit /\ last.op \in {"begin_transaction", "rollback_transaction"}) =>
        /\ last.res = "NoManualCommitException"
        /\ db = prev

(***************************************************************************)
(* Further properties of the collection specification.                     *)
(***************************************************************************)
\* The field csv.writer writes for a value: nothing for None, str(value)
\* otherwise.
CsvField(value) == IF value.k = "none" THEN <<>> ELSE StrOf(value)

\* C15: export_data of a non-empty Collection to a .csv path succeeds; the
\* file then holds a header of the file column name and the attribute
\* names of the first entry, and for each entry one row of its key and its
\* values in the order of the header.
C15_ExportCsvWritesHeaderAndRows ==
    (last.op = "export" /\ FileType(last.path) = "csv" /\ coll.v # <<>>) =>
        LET names == DictKeys(coll.v[1][2])
            header == Join(<<last.key.v>> \o [i \in 1..Len(names) |-> names[i].v], <<",">>)
            row(i) == Join(<<coll.v[i][1].v>>
                           \o [j \in 1..Len(names) |->
                                 IF DictHas(coll.v[i][2], names[j])
                                 THEN CsvField(DictGet(coll.v[i][2], names[j]))
                                 ELSE <<>>],
                           <<",">>)
        IN /\ last.res = "ok"
           /\ fs[last.path] = File(<<header>> \o [i \in 1..Len(coll.v) |-> row(i)])

(***************************************************************************)
(* Further properties of the search specification.                         *)
(***************************************************************************)
\* C16: a search without criteria, or with a criterion that names what is
\* no column of the dataset, fails, returns no Collection and leaves the
\* dataset as it was.
C16_SearchRejectsBadCriteria ==
    (/\ last.op = "search"
     /\ \/ last.arg.v = <<>>
        \/ \E name \in KeySet(last.arg) : name.v \notin Range(GetColumns(db[last.t]))) =>
        /\ last.res # "ok"
        /\ last.ret = PyNone
        /\ db = prev

(***************************************************************************)
(* Further properties of the two-dataset specification.                    *)
(***************************************************************************)
\* C17: assigning entries to a dataset name through the Store fails with
\* KeyError (already exists) and leaves the dataset as it was when it
\* exists with rows; otherwise it succeeds and the dataset then exists and
\* holds exactly the assigned entries.
C17_StoreAssignment ==
    last.op = "store_set" =>
        LET old == prev[last.t]
            new == db[last.t]
        IN IF old.exists /\ old.rows # <<>>
           THEN last.res = "KeyError" /\ new = old
           ELSE /\ last.res = "ok"
                /\ new.exists
                /\ SameCollection(All(Conn, last.t).ret, last.arg)

(***************************************************************************)
(* The in-memory specification: two Collections the caller builds, merges  *)
(* and takes subsets by position of.                                       *)
(***************************************************************************)
F3 == PyStr(<<"f", "3">>)

MemCollections ==
    {PyDict(<<>>),
     PyDict(<< <<F1, Entry(<< <<A, PyInt(1)>>, <<B, PyList(<<PyInt(2)>>)>> >>)>>,
               <<F2, Entry(<< <<A, PyInt(2)>> >>)>> >>),
     PyDict(<< <<F3, Entry(<< <<B, PyInt(1)>> >>)>>, <<F1, Entry(<< <<A, PyInt(3)>> >>)>> >>),
     PyDict(<< <<F1, Entry(<< <<A, PyInt(1)>> >>)>>, <<F2, Entry(<< <<A, PyInt(2)>> >>)>>,
               <<F3, Entry(<< <<A, PyInt(3)>> >>)>> >>)}

MemAmounts == 0..3

MemStarts == 0..3

InitMem == InitStore({A, B})

NextMem ==
    \/ nops < MaxMemOps /\ \E collection_dict \in MemCollections : CallNewCollection(collection_dict)
    \/ nops < MaxMemOps /\ \E collection_dict \in MemCollections : CallOtherCollection(collection_dict)
    \/ nops < MaxMemOps /\ CallMerge
    \/ nops < MaxMemOps /\ \E amount \in MemAmounts, start \in MemStarts, reverse \in BOOLEAN :
                              CallCollectionSubsetByAmount(amount, start, reverse)
    \/ nops < MaxMemOps /\ CallCollectionBool

SpecMem == InitMem /\ [][NextMem]_vars

\* C18: after coll.merge(otherColl) the keys of coll are those it had
\* together with those of otherColl, each once; every key of otherColl has
\* otherColl's whole entry, every key only coll had keeps its entry, and
\* otherColl is as it was.
C18_MergeIsRightBiasedUnion ==
    last.op = "merge" =>
        /\ KeySet(coll) = KeySet(prevColl) \cup KeySet(last.arg)
        /\ Len(coll.v) = Cardinality(KeySet(coll))
        /\ \A key \in KeySet(last.arg) : DictGet(coll, key) = DictGet(last.arg, key)
        /\ \A key \in KeySet(prevColl) \ KeySet(last.arg) :
               DictGet(coll, key) = DictGet(prevColl, key)
        /\ otherColl = last.arg

\* A merge onto a Collection that had a key of its own and, for a shared
\* key, an attribute the merged entry lacks.
C18_Witness ==
    /\ last.op = "merge"
    /\ KeySet(prevColl) \ KeySet(last.arg) # {}
    /\ DictHas(prevColl, F1) /\ DictHas(last.arg, F1)
    /\ DictHas(DictGet(prevColl, F1), PyStr(B))
    /\ ~DictHas(DictGet(last.arg, F1), PyStr(B))

\* C19: get_subset_by_amount(amount, start, reverse) with amount and start
\* natural numbers, on a Collection with keys K: without reverse it returns
\* the keys at positions start+1 .. start+amount of K (counted from 1), with
\* reverse the amount keys that end start positions before the end of K;
\* in both cases in the order of K, with their entries, only the positions
\* K has, and the Collection itself is as it was.
C19_SubsetByAmount ==
    last.op = "subset_by_amount" =>
        LET K == DictKeys(prevColl)
            n == Len(K)
            amount == last.key.v
            start == last.arg.v[1].v
            reverse == last.arg.v[2].v
            lo == IF reverse
                  THEN (IF n - start - amount + 1 < 1 THEN 1 ELSE n - start - amount + 1)
                  ELSE start + 1
            hi == IF reverse THEN n - start
                  ELSE (IF start + amount > n THEN n ELSE start + amount)
            expected == IF lo > hi THEN <<>> ELSE SubSeq(K, lo, hi)
        IN /\ last.res = "ok"
           /\ DictKeys(last.ret) = expected
           /\ \A key \in KeySet(last.ret) : DictGet(last.ret, key) = DictGet(prevColl, key)
           /\ coll = prevColl

\* A reverse subset of two keys, two positions before the end of three
\* keys: the range runs past the front and only the first key is returned.
C19_Witness ==
    /\ last.op = "subset_by_amount"
    /\ Len(prevColl.v) = 3
    /\ last.key = PyInt(2)
    /\ last.arg = PyList(<<PyInt(2), PyBool(TRUE)>>)
    /\ DictKeys(last.ret) = <<prevColl.v[1][1]>>

\* A reverse subset of two keys at the end of three keys, in forward order.
C19_WitnessLastTwo ==
    /\ last.op = "subset_by_amount"
    /\ Len(prevColl.v) = 3
    /\ last.key = PyInt(2)
    /\ last.arg = PyList(<<PyInt(0), PyBool(TRUE)>>)
    /\ DictKeys(last.ret) = <<prevColl.v[2][1], prevColl.v[3][1]>>

(***************************************************************************)
(* The import specification: a dataset written with set, and files found   *)
(* on disk (two written by an export of a Collection, one csv file written *)
(* by hand) imported into it with and without append.                      *)
(***************************************************************************)
ImportCollections ==
    {PyDict(<< <<F1, Entry(<< <<A, PyInt(5)>> >>)>> >>),
     PyDict(<< <<F3, Entry(<< <<A, PyInt(1)>>, <<B, PyList(<<PyInt(2)>>)>> >>)>>,
               <<F1, Entry(<< <<A, PyInt(5)>>, <<B, PyNone>> >>)>> >>)}

\* file_name,a / f3,7 / f2,8
CsvFile ==
    File(<<FileColumn \o <<",", "a">>, <<"f", "3", ",", "7">>, <<"f", "2", ",", "8">>>>)

ImportFiles ==
    {[p \in Paths |->
        CASE p = "out.jsonl" -> ExportData(c, NoFile, p, PyStr(FileColumn)).file
          [] p = "out.json" -> ExportData(c, NoFile, p, PyStr(FileColumn)).file
          [] p = "out.csv" -> CsvFile
          [] OTHER -> NoFile] : c \in ImportCollections}

InitImport == InitStoreWith({A, B, FileColumn}, ImportFiles)

NextImport ==
    \/ nops < MaxImportOps /\ \E attributes \in {<<>>, <<A>>} : CallCreateDataset("d", attributes)
    \/ nops < MaxImportOps /\ \E k \in {F1, F2} : CallSetItem("d", k, Entry(<< <<A, PyInt(1)>> >>))
    \/ nops < MaxImportOps /\ \E file_path \in Paths, append \in BOOLEAN :
                                 CallImportData("d", file_path, PyStr(FileColumn), append)

SpecImport == InitImport /\ [][NextImport]_vars

\* The keys of the records in the file: the file column of every line of a
\* jsonl file and of every row of a csv file, the keys of a json file.
FileKeys(file, file_path, file_column_name) ==
    CASE FileType(file_path) = "jsonl" ->
           {DictGet(JsonLoads(file.lines[i]).val, file_column_name).v :
               i \in 1..Len(file.lines)}
      [] FileType(file_path) = "json" ->
           {key.v : key \in KeySet(JsonLoads(file.lines[1]).val)}
      [] OTHER ->
           {SplitComma(file.lines[i])[IndexOf(SplitComma(file.lines[1]), file_column_name.v)] :
               i \in 2..Len(file.lines)}

\* C20: an import that returns leaves every key of the file in the dataset;
\* with append every key the dataset had that the file lacks keeps its row,
\* and without append the dataset holds the keys of the file and no other.
C20_ImportAppendsOrReplaces ==
    (last.op = "import" /\ last.res = "ok") =>
        LET old == prev[last.t]
            new == db[last.t]
            keys == FileKeys(fs[last.path], last.path, last.key)
        IN /\ keys \subseteq RowKeys(new)
           /\ last.arg = PyBool(TRUE) =>
                 /\ RowKeys(new) = RowKeys(old) \cup keys
                 /\ \A key \in RowKeys(old) \ keys : SameRow(old, new, key)
           /\ last.arg = PyBool(FALSE) => RowKeys(new) = keys

\* An import, with append, of a file with a key the dataset lacked, into a
\* dataset with a key the file lacks.
C20_Witness ==
    /\ last.op = "import" /\ last.res = "ok" /\ last.arg = PyBool(TRUE)
    /\ RowKeys(prev[last.t]) \ FileKeys(fs[last.path], last.path, last.key) # {}
    /\ FileKeys(fs[last.path], last.path, last.key) \ RowKeys(prev[last.t]) # {}

\* An import, without append, into a dataset with a key the file lacks.
C20_WitnessReplace ==
    /\ last.op = "import" /\ last.res = "ok" /\ last.arg = PyBool(FALSE)
    /\ RowKeys(prev[last.t]) \ FileKeys(fs[last.path], last.path, last.key) # {}

(***************************************************************************)
(* Further properties of the codec specification.                          *)
(***************************************************************************)
\* C21: for every list or dict a set has serialized, whatever the nesting
\* and whatever the keys of the dicts, _deserialize of the text _serialize
\* gave is a value equal to the one serialized.
C21_DecodeEncodeIsIdentity ==
    (last.op = "set" /\ last.res = "ok") =>
        \A name \in KeySet(last.arg) :
           LET value == DictGet(last.arg, name)
           IN value.k \in {"dict", "list"} =>
                 PyEq(Deserialize(Serialize(value)), value)

(***************************************************************************)
(* The column specification: the calls that write to a dataset without     *)
(* removing an attribute or dropping the dataset, on two datasets and the  *)
(* files of the import specification.                                      *)
(***************************************************************************)
ColumnEntries == {Entry(<< <<A, PyInt(1)>> >>), Entry(<< <<B, PyList(<<PyInt(2)>>)>> >>)}

ColumnBatches ==
    {PyDict(<< <<F1, Entry(<< <<B, PyInt(1)>> >>)>> >>),
     PyDict(<< <<F1, Entry(<< <<A, PyInt(1)>> >>)>>,
               <<F2, Entry(<< <<A, PyInt(1)>>, <<B, PyInt(2)>> >>)>> >>)}

InitColumns == InitStoreWith({A, B, FileColumn}, ImportFiles)

NextColumns ==
    \/ nops < MaxColumnOps /\ \E t \in DatasetNames : CallCreateDataset(t, <<A>>)
    \/ nops < MaxColumnOps /\ \E t \in DatasetNames, e \in ColumnEntries : CallSetItem(t, F1, e)
    \/ nops < MaxColumnOps /\ \E dataset_entries \in ColumnBatches :
                                 CallBatchInsert("d", dataset_entries)
    \/ nops < MaxColumnOps /\ CallAddAttribute("d", B)
    \/ nops < MaxColumnOps /\ CallDelItem("d", F1)
    \/ nops < MaxColumnOps /\ CallClear("d")
    \/ nops < MaxColumnOps /\ \E file_path \in {"out.jsonl", "out.csv", "out.txt"}, append \in BOOLEAN :
                                 CallImportData("d", file_path, PyStr(FileColumn), append)
    \/ nops < MaxColumnOps /\ CallDatasetAdd("d", "e")
    \/ nops < MaxColumnOps /\ CallDatasetSub("d", "e")

SpecColumns == InitColumns /\ [][NextColumns]_vars

\* The calls C22 names.
ColumnKeepingCalls ==
    {"set", "batch_insert", "add_attribute", "delete", "clear", "import", "add", "sub"}

\* C22: whether it returns or raises, a set, batch_insert, add_attribute,
\* delete, clear, import, + or - leaves every dataset in existence, and
\* every column a dataset had is a column of it afterwards.
C22_ColumnsNeverShrink ==
    last.op \in ColumnKeepingCalls =>
        \A t \in DatasetNames :
           prev[t].exists =>
              /\ db[t].exists
              /\ Range(prev[t].cols) \subseteq Range(db[t].cols)

\* A clear, a - or an import without append has emptied or rewritten a
\* dataset that had rows and a column beside those it was created with.
C22_Witness ==
    /\ last.op \in {"clear", "sub", "import"}
    /\ last.op = "import" => last.arg = PyBool(FALSE)
    /\ last.res = "ok"
    /\ prev[last.t].rows # <<>>
    /\ Len(prev[last.t].cols) > 1
    /\ RowKeys(db[last.t]) # RowKeys(prev[last.t])

(***************************************************************************)
(* Further properties of the import specification.                         *)
(***************************************************************************)
\* C23: an import from a path whose extension is not jsonl, json or csv
\* raises ValueError and leaves the rows of the dataset as they were, with
\* append and without.
C23_ImportRejectsUnknownExtension ==
    (last.op = "import" /\ FileType(last.path) \notin {"jsonl", "json", "csv"}) =>
        /\ last.res = "ValueError"
        /\ db[last.t].rows = prev[last.t].rows

(***************************************************************************)
(* A property of the main specification on entries without attributes.     *)
(***************************************************************************)
\* C24: a set of an entry without attributes returns; the key is in the
\* dataset afterwards; when the key was absent its row has None in every
\* column, and when it was present the dataset is as it was.
C24_SetOfEmptyEntryIsUpsert ==
    (last.op = "set" /\ last.arg = Entry(<<>>)) =>
        LET old == prev[last.t]
            new == db[last.t]
            key == TextAffinity(last.key).v
        IN /\ last.res = "ok"
           /\ RowIndex(new, key) > 0
           /\ RowIndex(old, key) = 0 =>
                 \A i \in 1..Len(new.cols) : RowOf(new, key).vals[i] = PyNone
           /\ RowIndex(old, key) > 0 => new = old

(***************************************************************************)
(* The read specification: set, delete, batch_insert and clear on one      *)
(* dataset, with the keys a caller can pass, None among them, and the      *)
(* reads compared in every state.                                          *)
(***************************************************************************)
ReadKeys == {F1, F2, PyNone}

ReadBatches ==
    {PyDict(<< <<F1, Entry(<< <<A, PyInt(2)>> >>)>>, <<F2, Entry(<< <<A, PyInt(3)>> >>)>> >>),
     PyDict(<< <<PyNone, Entry(<< <<A, PyInt(4)>> >>)>> >>)}

InitReads == InitStore({A})

NextReads ==
    \/ nops < MaxReadOps /\ CallCreateDataset("d", <<A>>)
    \/ nops < MaxReadOps /\ \E k \in ReadKeys : CallSetItem("d", k, Entry(<< <<A, PyInt(1)>> >>))
    \/ nops < MaxReadOps /\ \E k \in ReadKeys : CallDelItem("d", k)
    \/ nops < MaxReadOps /\ \E dataset_entries \in ReadBatches :
                               CallBatchInsert("d", dataset_entries)
    \/ nops < MaxReadOps /\ CallClear("d")

SpecReads == InitReads /\ [][NextReads]_vars

\* C25: in every state in which the dataset exists, keys() names no key
\* twice, len() is the number of keys of keys(), a key is contained exactly
\* when keys() names it, get of a key returns exactly when the key is
\* contained and raises KeyError otherwise, and the dataset is falsy
\* exactly when len() is 0.
C25_ReadsAgree ==
    db["d"].exists =>
        LET keys == Keys(Conn, "d").ret.v
        IN /\ \A i, j \in 1..Len(keys) : keys[i] = keys[j] => i = j
           /\ DatasetLen(Conn, "d").ret = PyInt(Len(keys))
           /\ \A k \in ReadKeys :
                 /\ Contains(Conn, "d", k).ret = PyBool(k \in Range(keys))
                 /\ GetItem(Conn, "d", k).res =
                       (IF Contains(Conn, "d", k).ret.v THEN "ok" ELSE "KeyError")
           /\ DatasetBool(Conn, "d").ret = PyBool(DatasetLen(Conn, "d").ret.v # 0)

\* C25 for the keys that are texts: the same agreement of the reads, the
\* rows of the key None left out of keys() and len().
C25_ReadsAgreeOnTextKeys ==
    db["d"].exists =>
        LET keys == SelectSeq(Keys(Conn, "d").ret.v, LAMBDA k : k # PyNone)
        IN /\ \A i, j \in 1..Len(keys) : keys[i] = keys[j] => i = j
           /\ \A k \in ReadKeys \ {PyNone} :
                 /\ Contains(Conn, "d", k).ret = PyBool(k \in Range(keys))
                 /\ GetItem(Conn, "d", k).res =
                       (IF Contains(Conn, "d", k).ret.v THEN "ok" ELSE "KeyError")
           /\ DatasetBool(Conn, "d").ret = PyBool(DatasetLen(Conn, "d").ret.v # 0)

(***************************************************************************)
(* A further property of the in-memory specification.                      *)
(***************************************************************************)
\* C26: bool() of a Collection is True exactly when the Collection holds
\* an entry, for the Collection the caller holds and for the Collection a
\* subset by amount returned.
C26_CollectionTruthiness ==
    /\ last.op = "bool" => last.ret = PyBool(Len(coll.v) > 0)
    /\ last.op = "subset_by_amount" =>
          CollectionBool(last.ret) = PyBool(Len(last.ret.v) > 0)

====
